---- MODULE Spec2Model ----
(***************************************************************************)
(* Model of the LinkedIn automation workflow                               *)
(* (src/app/workflows/linkedin_workflow.py): the LangGraph stage pipeline, *)
(* the review gate, the publish/regenerate/skip decision and the           *)
(* computation of the publish times.                                       *)
(*                                                                         *)
(* Numbers.  Scores are fixed-point integers: readability in points        *)
(* (0..100), engagement and relevance in hundredths (0..100 for 0.0..1.0), *)
(* the composite score in tenths of a point (400 for 40.0).  A time is a   *)
(* number of minutes since 00:00 of the day of the reference time, so one  *)
(* day is 1440 and "next day 08:00" is 1440 + 480.                         *)
(*                                                                         *)
(* Initial states.  kind = "daily" and "custom" are runs started by        *)
(* run_daily_automation and _run_custom_workflow.  kind = "stage" is the   *)
(* review stage taking over a candidate list whose posts carry             *)
(* "quality_metrics", the place review_content reads the scores from; the  *)
(* posts that generate_content stores carry none, so no run produces such  *)
(* a list (RunNeverApproves).  kind = "call" is one call outside a run:    *)
(* of _calculate_optimal_post_times (CalcSpec) or of the trend agent's     *)
(* _rank_trends and _store_trends (RankSpec), of _avoid_duplicate_topics   *)
(* (DupSpec), of _store_trends again and again (StoreSpec), of the         *)
(* scheduler service's start_automation and stop_automation (ServiceSpec)  *)
(* or of BaseAgent.execute (AgentSpec).  kind = "triggers" is the          *)
(* scheduler service starting runs that execute side by side               *)
(* (TriggerSpec), also beside runs taken over at the review stage          *)
(* (PublishSpec).                                                          *)
(*                                                                         *)
(* stage_failed, call_failed, gen_calls, db_calls, post_owner, marks,      *)
(* store_calls, service_calls and executions are history variables: they   *)
(* record what happened and are read by no action beyond a bound on their  *)
(* length.                                                                 *)
(*                                                                         *)
(* LangGraph executes one node per superstep and raises                    *)
(* GraphRecursionError when recursion_limit supersteps did not reach END;  *)
(* a graph invoked without recursion_limit has LangGraph's default of 25.  *)
(***************************************************************************)
EXTENDS Integers, Sequences, FiniteSets, TLC

VARIABLES
    kind,               \* who supplied the state: "daily", "custom", "stage",
                        \* "call" or "triggers"
    config,             \* max_trends, max_posts_per_day, content_tones, recursion_limit
    pc,                 \* the node the graph executes next, "end" or "failed"
    current_step,       \* LinkedInWorkflowState.current_step
    trends,             \* LinkedInWorkflowState.trends
    generated_content,  \* LinkedInWorkflowState.generated_content
    published_posts,    \* LinkedInWorkflowState.published_posts
    errors,             \* LinkedInWorkflowState.errors
    steps,              \* supersteps the graph has executed in this run
    decision,           \* last value returned by _should_publish_content
    total_generated,    \* candidates appended by generate_content so far in the run
    posts,              \* the Post table: posts[id] = [status, scheduled_at]
    result,             \* what the caller of the run got back
    summary,            \* the "summary" of the value returned on success
    stage_failed,       \* history: the stage executed last recorded a failure
    call_failed,        \* history: a generation request of the run has failed
    gen_calls,          \* history: how the requests of the last generate_content
                        \* went, one per (trend, tone) in the order made
    db_calls,           \* history: how the database calls for each post to
                        \* schedule went
    base_time,          \* the utcnow() read by _calculate_optimal_post_times
    num_posts,          \* its argument
    scheduled_times,    \* its return value
    calc_done,          \* whether the call has returned
    topics,             \* the mention list handed to _rank_trends
    limit,              \* its limit argument
    responses,          \* the text service's answer for each lower-cased topic
    trend_table,        \* the TrendTopic table: rows [id, topic, relevance_score]
    ranked_trends,      \* what _rank_trends returned
    stored_trends,      \* what _store_trends returned
    agent_pc,           \* "idle", "rank", "store", "done" or "raised"
    clock,              \* utcnow() in whole seconds, as strftime('%Y%m%d_%H%M%S') shows it
    invocations,        \* the runs of the graph started so far, each with its
                        \* own LinkedInWorkflowState
    checkpoints,        \* MemorySaver: thread_id -> the state saved last
    activity_log,       \* the AgentActivity rows of agent "LinkedInWorkflow"
    actor,              \* history: the run that took the last step, 0 for none
    post_owner,         \* history: post_owner[id] is the run whose generate_content
                        \* stored post id
    marks,              \* history: one entry per assignment of Post.status:
                        \* the post, the run that made it and the status before
    now_day,            \* the utcnow() read by _avoid_duplicate_topics, in days
    candidate_trends,   \* its argument
    post_rows,          \* the Post rows it reads: [trend_topic_id, created_at]
    history_read,       \* how its database calls went
    filtered_trends,    \* its return value
    dup_pc,             \* "idle", "call" or "returned"
    store_now,          \* utcnow() of the trend store, in units of 12 hours
    topic_rows,         \* the TrendTopic table with the time of detection:
                        \* rows [id, topic, relevance_score, detected_at]
    store_calls,        \* history: the calls of _store_trends so far, each
                        \* with its time and the rows it created and updated
    is_running,         \* LinkedInSchedulerService.is_running
    scheduler_state,    \* the state of the APScheduler: "stopped" or "running"
    jobs,               \* the job ids in the scheduler, each with the number of
                        \* times it was added or replaced
    service_calls,      \* history: the calls of start_automation and
                        \* stop_automation so far, each with its result
    agent_activity,     \* the AgentActivity rows written by BaseAgent._log_activity
    executions          \* history: the calls of BaseAgent.execute so far

vars == <<kind, config, pc, current_step, trends, generated_content,
          published_posts, errors, steps, decision, total_generated, posts,
          result, summary, stage_failed, call_failed, gen_calls, db_calls,
          base_time, num_posts, scheduled_times, calc_done, topics, limit,
          responses, trend_table, ranked_trends, stored_trends, agent_pc,
          clock, invocations, checkpoints, activity_log, actor, post_owner,
          marks, now_day, candidate_trends, post_rows, history_read,
          filtered_trends, dup_pc, store_now, topic_rows, store_calls, is_running,
          scheduler_state, jobs, service_calls, agent_activity, executions>>

wfVars == <<kind, config, pc, current_step, trends, generated_content,
            published_posts, errors, steps, decision, total_generated, posts,
            result, summary, stage_failed, call_failed, gen_calls, db_calls>>

calcVars == <<base_time, num_posts, scheduled_times, calc_done>>

rankVars == <<topics, limit, responses, trend_table, ranked_trends,
              stored_trends, agent_pc>>

trigVars == <<clock, invocations, checkpoints, activity_log, actor>>

ownerVars == <<post_owner, marks>>

dupVars == <<now_day, candidate_trends, post_rows, history_read,
             filtered_trends, dup_pc>>

storeVars == <<store_now, topic_rows, store_calls>>

serviceVars == <<is_running, scheduler_state, jobs, service_calls>>

agentVars == <<agent_activity, executions>>

sideVars == <<dupVars, storeVars, serviceVars, agentVars>>

otherVars == <<ownerVars, sideVars>>

----------------------------------------------------------------------------
(* Bounds of the model *)

\* longest trend list the trend agent hands back
MaxTrendsFound == 3
\* most generation requests that fail in one round of generate_content
MaxGenFailures == 1
\* longest trend list behind a candidate list handed to the review stage
MaxStageTrends == 2
\* largest num_posts handed to the publish-time computation
MaxPosts == 10

(* Program constants *)

RecursionLimit == 50
DefaultRecursionLimit == 25
RegenerateCeiling == 5
ApprovalThreshold == 400
MinutesPerDay == 1440
JitterMinutes == 30

\* mutant: the morning slot an hour late
MutOptimalHours == <<9, 12, 17>>

optimal_hours == <<8, 12, 17>>

DefaultMaxTrends == 5
DefaultMaxPostsPerDay == 3
DefaultTones == <<"professional", "casual">>

(* Input sets *)

RelevanceValues == {50, 100}
\* quality metrics (readability, engagement) of a generated post
Qualities == {[readability_score |-> 80, engagement_score |-> 75]}
\* quality metrics a caller of the review stage may put inside content["post"]
PostQualities == {[readability_score |-> 50, engagement_score |-> 24],
                  [readability_score |-> 50, engagement_score |-> 25],
                  [readability_score |-> 40, engagement_score |-> 25]}
ValidTones == {"professional", "casual", "technical"}
ToneLists == {<<"professional">>, <<"professional", "casual">>, <<"funny">>}
MaxPostsChoices == {1, 2, 3}
NowHours == {9, 18}
\* how the database calls for one post go: all succeed, next(get_db()) raises
\* (post_id not yet assigned), or the query or the commit raises
DbOutcomes == {"ok", "connect_error", "commit_error"}
\* what ainvoke hands back: the state object, or a mapping of its fields (on
\* which getattr finds no attribute and gives its default)
FinalStateForms == {"object", "mapping"}

----------------------------------------------------------------------------
(* Sequences *)

Min(a, b) == IF a <= b THEN a ELSE b

Take(s, n) == SubSeq(s, 1, Min(n, Len(s)))

RECURSIVE InsertDesc(_, _, _)
\* order: indices already placed, keys descending; i goes after every index
\* whose key is >= keys[i] (Python's stable sort with reverse=True)
InsertDesc(order, keys, i) ==
    IF order = <<>> THEN <<i>>
    ELSE IF keys[Head(order)] >= keys[i]
         THEN <<Head(order)>> \o InsertDesc(Tail(order), keys, i)
         ELSE <<i>> \o order

RECURSIVE SortedOrder(_, _)
\* the indices 1..n of keys in the order a stable descending sort leaves them
SortedOrder(keys, n) ==
    IF n = 0 THEN <<>>
    ELSE InsertDesc(SortedOrder(keys, n - 1), keys, n)

\* mutant: reverse=True forgotten, the sort is ascending
MutSortDesc(s, keys) ==
    LET order == SortedOrder(keys, Len(s))
    IN  [k \in 1..Len(s) |-> s[order[Len(s) + 1 - k]]]

SortDesc(s, keys) ==
    LET order == SortedOrder(keys, Len(s))
    IN  [k \in 1..Len(s) |-> s[order[k]]]

----------------------------------------------------------------------------
(* Records of the run state *)

NoQuality == [readability_score |-> 0, engagement_score |-> 0]

\* the dict _store_content returns: it has no "quality_metrics" key
StoredPost(id) == [id |-> id, has_quality_metrics |-> FALSE, quality_metrics |-> NoQuality]

\* a post dict that does carry "quality_metrics" (only a caller of the review
\* stage can build one)
PostWithQuality(id, q) == [id |-> id, has_quality_metrics |-> TRUE, quality_metrics |-> q]

\* content_data as generate_content appends it: no "composite_score" and no
\* "approved" key yet
Content(post, q, trend, tone) ==
    [post |-> post, quality_metrics |-> q, trend_info |-> trend, tone |-> tone,
     has_score |-> FALSE, composite_score |-> 0, approved |-> FALSE]

DraftPost == [status |-> "draft", scheduled_at |-> -1]

RECURSIVE Drafts(_)
Drafts(n) == IF n = 0 THEN <<>> ELSE Append(Drafts(n - 1), DraftPost)

\* trend lists as the trend agent returns them: ranked by descending score,
\* ids given by the store
IsDescending(f, n) == \A k \in 1..(n - 1) : f[k] >= f[k + 1]

TrendLists ==
    UNION {{[k \in 1..n |-> [id |-> k, relevance_score |-> f[k]]] :
              f \in {g \in [1..n -> RelevanceValues] : IsDescending(g, n)}} :
           n \in 0..MaxTrendsFound}

GenOutcomes ==
    {[ok |-> FALSE, q |-> NoQuality]} \cup {[ok |-> TRUE, q |-> q] : q \in Qualities}

----------------------------------------------------------------------------
(* filter_trends *)

\* mutant: the slice [:max_posts_per_day] is forgotten
MutFilterTrends(ts, max_posts_per_day) ==
    SortDesc(ts, [k \in 1..Len(ts) |-> ts[k].relevance_score])

FilterTrends(ts, max_posts_per_day) ==
    Take(SortDesc(ts, [k \in 1..Len(ts) |-> ts[k].relevance_score]), max_posts_per_day)

(* generate_content: one request per (trend, tone), trend-major *)

\* mutant: the loops are exchanged, tone-major
MutPairs(ts, tones) ==
    [k \in 1..(Len(ts) * Len(tones)) |->
        [trend |-> ts[((k - 1) % Len(ts)) + 1],
         tone |-> tones[((k - 1) \div Len(ts)) + 1]]]

Pairs(ts, tones) ==
    [k \in 1..(Len(ts) * Len(tones)) |->
        [trend |-> ts[((k - 1) \div Len(tones)) + 1],
         tone |-> tones[((k - 1) % Len(tones)) + 1]]]

RECURSIVE MutGenerate(_, _, _, _)
\* mutant: the posts of a round are numbered from 1, whatever the table holds
MutGenerate(pairs, outcome, n, first_id) ==
    IF n = 0 THEN <<>>
    ELSE LET before == MutGenerate(pairs, outcome, n - 1, first_id)
         IN  IF outcome[n].ok
             THEN Append(before,
                         Content(StoredPost(1 + Len(before)), outcome[n].q,
                                 pairs[n].trend, pairs[n].tone))
             ELSE before

RECURSIVE Generate(_, _, _, _)
\* the candidates of the first n pairs; a stored post gets the next free id
Generate(pairs, outcome, n, first_id) ==
    IF n = 0 THEN <<>>
    ELSE LET before == Generate(pairs, outcome, n - 1, first_id)
         IN  IF outcome[n].ok
             THEN Append(before,
                         Content(StoredPost(first_id + Len(before)), outcome[n].q,
                                 pairs[n].trend, pairs[n].tone))
             ELSE before

(* review_content *)

\* mutant: the engagement term is subtracted
MutCompositeScore(readability_score, engagement_score, trend_relevance) ==
    readability_score * 3 - engagement_score * 4 + trend_relevance * 3

CompositeScore(readability_score, engagement_score, trend_relevance) ==
    readability_score * 3 + engagement_score * 4 + trend_relevance * 3

\* mutant: the approval gate is > 40 instead of >= 40
MutReviewOne(content) ==
    LET quality_metrics == IF content.post.has_quality_metrics
                           THEN content.post.quality_metrics
                           ELSE NoQuality
        composite_score == CompositeScore(quality_metrics.readability_score,
                                          quality_metrics.engagement_score,
                                          content.trend_info.relevance_score)
    IN  [content EXCEPT !.has_score = TRUE,
                        !.composite_score = composite_score,
                        !.approved = (composite_score > ApprovalThreshold)]

\* content["post"].get("quality_metrics", {}) and the three .get(..., 0)
ReviewOne(content) ==
    LET quality_metrics == IF content.post.has_quality_metrics
                           THEN content.post.quality_metrics
                           ELSE NoQuality
        composite_score == CompositeScore(quality_metrics.readability_score,
                                          quality_metrics.engagement_score,
                                          content.trend_info.relevance_score)
    IN  [content EXCEPT !.has_score = TRUE,
                        !.composite_score = composite_score,
                        !.approved = (composite_score >= ApprovalThreshold)]

ReviewContent(gc) ==
    LET annotated == [k \in 1..Len(gc) |-> ReviewOne(gc[k])]
    IN  SortDesc(annotated, [k \in 1..Len(gc) |-> annotated[k].composite_score])

ApprovedCount(gc) == Cardinality({k \in 1..Len(gc) : gc[k].approved})

\* mutant: the check for an empty candidate list is forgotten
MutShouldPublishNoEmptyCheck(gc) ==
    IF ApprovedCount(gc) >= 1 THEN "publish"
    ELSE IF Len(gc) < RegenerateCeiling THEN "regenerate"
    ELSE "skip"

\* mutant: approved_count >= 0 instead of >= 1
MutShouldPublishContent(gc) ==
    IF gc = <<>> THEN "skip"
    ELSE IF ApprovedCount(gc) >= 0 THEN "publish"
    ELSE IF Len(gc) < RegenerateCeiling THEN "regenerate"
    ELSE "skip"

ShouldPublishContent(gc) ==
    IF gc = <<>> THEN "skip"
    ELSE IF ApprovedCount(gc) >= 1 THEN "publish"
    ELSE IF Len(gc) < RegenerateCeiling THEN "regenerate"
    ELSE "skip"

\* the conditional edges of review_content
Route(d) ==
    CASE d = "publish" -> "schedule_posts"
      [] d = "regenerate" -> "generate_content"
      [] d = "skip" -> "end"

(* _calculate_optimal_post_times *)

\* mutant: the jitter is subtracted
MutScheduleTimeMinusJitter(base, i) ==
    LET hour == optimal_hours[(i % Len(optimal_hours)) + 1]
        schedule_time == IF base.hour >= hour
                         THEN hour * 60 + MinutesPerDay
                         ELSE hour * 60
    IN  schedule_time - i * JitterMinutes

\* mutant: a passed slot hour is not moved to the next day
MutScheduleTimeNoRoll(base, i) ==
    LET hour == optimal_hours[(i % Len(optimal_hours)) + 1]
    IN  hour * 60 + i * JitterMinutes

\* mutant: the slot hour equal to the current hour counts as still ahead
MutScheduleTimeStrict(base, i) ==
    LET hour == optimal_hours[(i % Len(optimal_hours)) + 1]
        schedule_time == IF base.hour > hour
                         THEN hour * 60 + MinutesPerDay
                         ELSE hour * 60
    IN  schedule_time + i * JitterMinutes

ScheduleTime(base, i) ==
    LET hour == optimal_hours[(i % Len(optimal_hours)) + 1]
        schedule_time == IF base.hour >= hour
                         THEN hour * 60 + MinutesPerDay
                         ELSE hour * 60
    IN  schedule_time + i * JitterMinutes

CalculateOptimalPostTimes(n, base) == [k \in 1..n |-> ScheduleTime(base, k - 1)]

(* schedule_posts *)

\* the except clause of the loop formats post_id, which is unassigned if the
\* first post's next(get_db()) raised: the handler raises itself and the
\* stage's outer except clause ends the loop
Aborted(db) == Len(db) >= 1 /\ db[1] = "connect_error"

\* mutant: the filter on "approved" is forgotten
MutApprovedContent(gc) == gc

ApprovedContent(gc) == SelectSeq(gc, LAMBDA c : c.approved)

RECURSIVE Scheduled(_, _, _, _)
\* published_posts entries of the first n posts to schedule
Scheduled(to_schedule, times, db, n) ==
    IF n = 0 THEN <<>>
    ELSE LET before == Scheduled(to_schedule, times, db, n - 1)
         IN  IF db[n] = "ok"
             THEN Append(before, [post_id |-> to_schedule[n].post.id,
                                  scheduled_at |-> times[n]])
             ELSE before

----------------------------------------------------------------------------
(* The run *)

Nodes == {"analyze_trends", "filter_trends", "generate_content",
          "review_content", "schedule_posts", "monitor_engagement"}

DefaultConfig ==
    [max_trends |-> DefaultMaxTrends, max_posts_per_day |-> DefaultMaxPostsPerDay,
     content_tones |-> DefaultTones, recursion_limit |-> RecursionLimit]

CustomConfigs ==
    {[max_trends |-> DefaultMaxTrends, max_posts_per_day |-> m, content_tones |-> t,
      recursion_limit |-> DefaultRecursionLimit] :
        m \in MaxPostsChoices, t \in ToneLists}

NoSummary ==
    [trends_found |-> 0, content_generated |-> 0, posts_scheduled |-> 0,
     errors |-> <<>>]

NothingYet ==
    /\ summary = NoSummary
    /\ stage_failed = FALSE
    /\ call_failed = FALSE
    /\ gen_calls = <<>>
    /\ db_calls = <<>>

CalcIdle ==
    /\ base_time = [hour |-> 0, minute |-> 0]
    /\ num_posts = 0
    /\ scheduled_times = <<>>
    /\ calc_done = FALSE

RankIdle ==
    /\ topics = <<>>
    /\ limit = DefaultMaxTrends
    /\ responses = <<>>
    /\ trend_table = <<>>
    /\ ranked_trends = <<>>
    /\ stored_trends = <<>>
    /\ agent_pc = "idle"

TriggerIdle ==
    /\ clock = 0
    /\ invocations = <<>>
    /\ checkpoints = <<>>
    /\ activity_log = <<>>
    /\ actor = 0

OwnerIdle ==
    /\ post_owner = <<>>
    /\ marks = <<>>

DupIdle ==
    /\ now_day = 0
    /\ candidate_trends = <<>>
    /\ post_rows = <<>>
    /\ history_read = "ok"
    /\ filtered_trends = <<>>
    /\ dup_pc = "idle"

StoreIdle ==
    /\ store_now = 0
    /\ topic_rows = <<>>
    /\ store_calls = <<>>

\* LinkedInSchedulerService.__init__: is_running False, a fresh scheduler
ServiceIdle ==
    /\ is_running = FALSE
    /\ scheduler_state = "stopped"
    /\ jobs = <<>>
    /\ service_calls = <<>>

AgentIdle ==
    /\ agent_activity = <<>>
    /\ executions = <<>>

OthersIdle ==
    /\ OwnerIdle
    /\ DupIdle
    /\ StoreIdle
    /\ ServiceIdle
    /\ AgentIdle

\* run_daily_automation and _run_custom_workflow build the initial state
RunInit ==
    /\ \/ kind = "daily" /\ config = DefaultConfig
       \/ kind = "custom" /\ config \in CustomConfigs
    /\ pc = "analyze_trends"
    /\ current_step = IF kind = "daily" THEN "starting" ELSE ""
    /\ trends = <<>>
    /\ generated_content = <<>>
    /\ published_posts = <<>>
    /\ errors = <<>>
    /\ steps = 0
    /\ decision = "none"
    /\ total_generated = 0
    /\ posts = <<>>
    /\ result = "none"
    /\ NothingYet
    /\ CalcIdle
    /\ RankIdle
    /\ TriggerIdle
    /\ OthersIdle

\* the review stage handed a candidate list by its caller: every candidate
\* carries its scores inside content["post"]
StageInit ==
    /\ kind = "stage"
    /\ config \in {[c EXCEPT !.recursion_limit = RecursionLimit] : c \in CustomConfigs}
    /\ \A k \in 1..Len(config.content_tones) : config.content_tones[k] \in ValidTones
    /\ pc = "review_content"
    /\ current_step = "generating_content"
    /\ \E ts \in TrendLists :
         /\ ts # <<>>
         /\ Len(ts) <= MaxStageTrends
         /\ trends = FilterTrends(ts, config.max_posts_per_day)
    /\ \E q \in [1..(Len(trends) * Len(config.content_tones)) -> PostQualities] :
         generated_content =
            [k \in 1..(Len(trends) * Len(config.content_tones)) |->
                Content(PostWithQuality(k, q[k]), q[k],
                        Pairs(trends, config.content_tones)[k].trend,
                        Pairs(trends, config.content_tones)[k].tone)]
    /\ published_posts = <<>>
    /\ errors = <<>>
    /\ steps = 3
    /\ decision = "none"
    /\ total_generated = Len(generated_content)
    /\ posts = Drafts(Len(generated_content))
    /\ result = "none"
    /\ NothingYet
    /\ CalcIdle
    /\ RankIdle
    /\ TriggerIdle
    /\ OthersIdle

Init == RunInit \/ StageInit

\* mutant: one superstep more than recursion_limit
MutCanStep(node) == pc = node /\ steps <= config.recursion_limit

CanStep(node) == pc = node /\ steps < config.recursion_limit

\* mutant: the failure is logged and not recorded
MutStageError(errs, error_msg) == errs

\* state.errors.append(error_msg) in a stage's failure branch
StageError(errs, error_msg) == Append(errs, error_msg)

AnalyzeTrends ==
    /\ CanStep("analyze_trends")
    /\ current_step' = "analyzing_trends"
    /\ \/ \E ts \in TrendLists :
            /\ Len(ts) <= config.max_trends
            /\ trends' = ts
            /\ errors' = errors
            /\ stage_failed' = FALSE
       \/ /\ trends' = trends
          /\ errors' = StageError(errors, "Trend analysis failed")
          /\ stage_failed' = TRUE
    /\ pc' = "filter_trends"
    /\ steps' = steps + 1
    /\ UNCHANGED <<kind, config, generated_content, published_posts, decision,
                   total_generated, posts, result, summary, call_failed, gen_calls,
                   db_calls, calcVars, rankVars, trigVars, otherVars>>

FilterTrendsNode ==
    /\ CanStep("filter_trends")
    /\ current_step' = "filtering_trends"
    /\ trends' = IF trends = <<>> THEN trends
                 ELSE FilterTrends(trends, config.max_posts_per_day)
    /\ stage_failed' = FALSE
    /\ pc' = "generate_content"
    /\ steps' = steps + 1
    /\ UNCHANGED <<kind, config, generated_content, published_posts, errors,
                   decision, total_generated, posts, result, summary,
                   call_failed, gen_calls, db_calls, calcVars, rankVars, trigVars, otherVars>>

\* a request with a tone outside ValidTones fails the agent's validation; any
\* other request may fail in the agent's logic; neither failure is recorded
GenerateContent ==
    /\ CanStep("generate_content")
    /\ current_step' = "generating_content"
    /\ LET pairs == Pairs(trends, config.content_tones)
       IN  \E outcome \in [1..Len(pairs) -> GenOutcomes] :
             LET failed == {k \in 1..Len(pairs) :
                              ~outcome[k].ok /\ pairs[k].tone \in ValidTones}
                 new == Generate(pairs, outcome, Len(pairs), Len(posts) + 1)
             IN  /\ \A k \in 1..Len(pairs) :
                       pairs[k].tone \notin ValidTones => ~outcome[k].ok
                 /\ Cardinality(failed) <= MaxGenFailures
                 /\ generated_content' = new
                 /\ posts' = posts \o Drafts(Len(new))
                 /\ total_generated' = total_generated + Len(new)
                 /\ call_failed' = (call_failed \/ failed # {})
                 /\ gen_calls' = [k \in 1..Len(pairs) |->
                                     IF outcome[k].ok THEN "ok" ELSE "failed"]
    /\ stage_failed' = FALSE
    /\ pc' = "review_content"
    /\ steps' = steps + 1
    /\ UNCHANGED <<kind, config, trends, published_posts, errors, decision,
                   result, summary, db_calls, calcVars, rankVars, trigVars, otherVars>>

ReviewContentNode ==
    /\ CanStep("review_content")
    /\ current_step' = "reviewing_content"
    /\ generated_content' = ReviewContent(generated_content)
    /\ decision' = ShouldPublishContent(generated_content')
    /\ stage_failed' = FALSE
    /\ pc' = Route(decision')
    /\ steps' = steps + 1
    /\ UNCHANGED <<kind, config, trends, published_posts, errors,
                   total_generated, posts, result, summary, call_failed, gen_calls,
                   db_calls, calcVars, rankVars, trigVars, otherVars>>

SchedulePosts ==
    /\ CanStep("schedule_posts")
    /\ current_step' = "scheduling_posts"
    /\ LET posts_to_schedule == Take(ApprovedContent(generated_content),
                                     config.max_posts_per_day)
           n == Len(posts_to_schedule)
       IN  \E h \in NowHours, db \in [1..n -> DbOutcomes] :
             LET times == CalculateOptimalPostTimes(n, [hour |-> h, minute |-> 0])
                 done == IF Aborted(db) THEN <<>>
                         ELSE Scheduled(posts_to_schedule, times, db, n)
             IN  /\ Aborted(db) => \A k \in 2..n : db[k] = "ok"
                 /\ db_calls' = IF Aborted(db) THEN SubSeq(db, 1, 1) ELSE db
                 /\ stage_failed' = Aborted(db)
                 /\ errors' = IF Aborted(db)
                              THEN StageError(errors, "Post scheduling error")
                              ELSE errors
                 /\ published_posts' = published_posts \o done
                 /\ posts' = [id \in 1..Len(posts) |->
                                IF \E k \in 1..Len(done) : done[k].post_id = id
                                THEN [status |-> "scheduled",
                                      scheduled_at |->
                                        done[CHOOSE k \in 1..Len(done) :
                                                done[k].post_id = id].scheduled_at]
                                ELSE posts[id]]
    /\ pc' = "monitor_engagement"
    /\ steps' = steps + 1
    /\ UNCHANGED <<kind, config, trends, generated_content, decision,
                   total_generated, result, summary, call_failed, gen_calls, calcVars,
                   rankVars, trigVars, otherVars>>

\* mutant: the stage's failure branch is taken
MutMonitorEngagement ==
    /\ CanStep("monitor_engagement")
    /\ current_step' = "monitoring_engagement"
    /\ errors' = StageError(errors, "Engagement monitoring error")
    /\ stage_failed' = TRUE
    /\ pc' = "end"
    /\ steps' = steps + 1
    /\ UNCHANGED <<kind, config, trends, generated_content, published_posts,
                   decision, total_generated, posts, result, summary,
                   call_failed, gen_calls, db_calls, calcVars, rankVars, trigVars, otherVars>>

MonitorEngagement ==
    /\ CanStep("monitor_engagement")
    /\ current_step' = "monitoring_engagement"
    /\ stage_failed' = FALSE
    /\ pc' = "end"
    /\ steps' = steps + 1
    /\ UNCHANGED <<kind, config, trends, generated_content, published_posts,
                   errors, decision, total_generated, posts, result, summary,
                   call_failed, gen_calls, db_calls, calcVars, rankVars, trigVars, otherVars>>

\* len(getattr(final_state, name, [])) for the three lists, and
\* getattr(final_state, 'errors', [])
Summary(form) ==
    IF form = "object"
    THEN [trends_found |-> Len(trends),
          content_generated |-> Len(generated_content),
          posts_scheduled |-> Len(published_posts),
          errors |-> errors]
    ELSE [trends_found |-> 0, content_generated |-> 0, posts_scheduled |-> 0,
          errors |-> <<>>]

\* ainvoke returns the final state and the caller builds the summary
ReturnSummary ==
    /\ pc = "end"
    /\ result = "none"
    /\ result' = "success"
    /\ \E form \in FinalStateForms : summary' = Summary(form)
    /\ UNCHANGED <<kind, config, pc, current_step, trends, generated_content,
                   published_posts, errors, steps, decision, total_generated,
                   posts, stage_failed, call_failed, gen_calls, db_calls, calcVars,
                   rankVars, trigVars, otherVars>>

\* the graph is out of steps before reaching END: ainvoke raises and the
\* caller's except clause reports the failure
RecursionError ==
    /\ pc \in Nodes
    /\ steps >= config.recursion_limit
    /\ pc' = "failed"
    /\ result' = "failure"
    /\ UNCHANGED <<kind, config, current_step, trends, generated_content,
                   published_posts, errors, steps, decision, total_generated,
                   posts, summary, stage_failed, call_failed, gen_calls, db_calls,
                   calcVars, rankVars, trigVars, otherVars>>

Next ==
    \/ AnalyzeTrends
    \/ FilterTrendsNode
    \/ GenerateContent
    \/ ReviewContentNode
    \/ SchedulePosts
    \/ MonitorEngagement
    \/ ReturnSummary
    \/ RecursionError

Spec == Init /\ [][Next]_vars

----------------------------------------------------------------------------
(* _calculate_optimal_post_times as a function of num_posts and utcnow() *)

MinuteChoices == {0, 30, 59}

NoRun ==
    /\ kind = "call"
    /\ config = DefaultConfig
    /\ pc = "idle"
    /\ current_step = ""
    /\ trends = <<>>
    /\ generated_content = <<>>
    /\ published_posts = <<>>
    /\ errors = <<>>
    /\ steps = 0
    /\ decision = "none"
    /\ total_generated = 0
    /\ posts = <<>>
    /\ result = "none"
    /\ NothingYet

CalcInit ==
    /\ NoRun
    /\ base_time \in [hour : 0..23, minute : MinuteChoices]
    /\ num_posts \in 0..MaxPosts
    /\ scheduled_times = <<>>
    /\ calc_done = FALSE
    /\ RankIdle
    /\ TriggerIdle
    /\ OthersIdle

CalculateCall ==
    /\ ~calc_done
    /\ scheduled_times' = CalculateOptimalPostTimes(num_posts, base_time)
    /\ calc_done' = TRUE
    /\ UNCHANGED <<wfVars, base_time, num_posts, rankVars, trigVars, otherVars>>

CalcNext == CalculateCall

CalcSpec == CalcInit /\ [][CalcNext]_vars

\* the reference time in minutes since 00:00 of its day
NowMinutes == base_time.hour * 60 + base_time.minute

----------------------------------------------------------------------------
(* The trend agent: _rank_trends and _store_trends as a function of the     *)
(* mention list, the limit, the text service's answers and the TrendTopic   *)
(* table.  A relevance is in hundredths; a final score (the relevance_score *)
(* of a ranked or stored trend) is in thousandths, 930 for 0.93.            *)

\* most maximal runs of one topic string in a mention list
MaxRuns == 3
\* most topics whose answer is not a number inside [0, 1]
MaxOddResponses == 1

MentionCap == 10
FrequencyFull == 5
RelevanceWeight == 7
FrequencyWeight == 3

DefaultRelevance == 50

TopicStrings == {"AI", "ai", "cloud", "rust"}
RunLengths == {1, 2, 5}
Limits == {2, DefaultMaxTrends}
PlainResponses == {[kind |-> "number", value |-> 40],
                   [kind |-> "number", value |-> 90]}
OddResponses == {[kind |-> "number", value |-> 150],
                 [kind |-> "number", value |-> -20],
                 [kind |-> "malformed", value |-> 0],
                 [kind |-> "error", value |-> 0]}
\* the table before the call: empty, or holding a row for "AI" older than 24
\* hours and one detected since
InitialTrendTables ==
    {<<>>,
     <<[id |-> 1, topic |-> "AI", first |-> 0, relevance_score |-> 500, recent |-> FALSE],
       [id |-> 2, topic |-> "AI", first |-> 0, relevance_score |-> 500, recent |-> TRUE]>>}

\* str.lower() on TopicStrings
Lower(s) == IF s = "AI" THEN "ai" ELSE s

Repeat(s, c) == [k \in 1..c |-> s]

RECURSIVE Expand(_, _)
\* the topic strings of the first n runs, one per mention
Expand(runs, n) ==
    IF n = 0 THEN <<>>
    ELSE Expand(runs, n - 1) \o Repeat(runs[n][1], runs[n][2])

RunLists ==
    UNION {{r \in [1..n -> TopicStrings \X RunLengths] :
              \A k \in 1..(n - 1) : r[k][1] # r[k + 1][1]} : n \in 0..MaxRuns}

\* a mention carries its topic string and, as "first", its own position: it
\* stands for the hashtags and the source article of that mention
MentionLists ==
    {[k \in 1..Len(Expand(r, Len(r))) |->
        [topic |-> Expand(r, Len(r))[k], first |-> k]] : r \in RunLists}

\* mutant: the counting loop never stops early
MutCounted(ms) == ms

\* the mentions the counting loop looks at before counter >= 10 stops it
Counted(ms) == Take(ms, MentionCap)

RECURSIVE TopicKeys(_, _)
\* the keys of topic_counts after the first n mentions, in insertion order
TopicKeys(ms, n) ==
    IF n = 0 THEN <<>>
    ELSE LET before == TopicKeys(ms, n - 1)
             topic == Lower(ms[n].topic)
         IN  IF \E k \in 1..Len(before) : before[k] = topic
             THEN before
             ELSE Append(before, topic)

TopicCount(ms, topic) ==
    Cardinality({k \in 1..Len(ms) : Lower(ms[k].topic) = topic})

\* topic_data[topic]: the first mention whose lower-cased topic is the key
TopicData(ms, topic) ==
    ms[CHOOSE k \in 1..Len(ms) :
          /\ Lower(ms[k].topic) = topic
          /\ \A j \in 1..(k - 1) : Lower(ms[j].topic) # topic]

Max(a, b) == IF a >= b THEN a ELSE b

\* mutant: an answer that is no number counts as relevance 0
MutRelevanceOfMalformed(response) ==
    IF response.kind = "number"
    THEN Max(0, Min(100, response.value))
    ELSE 0

\* mutant: the clamp to [0, 1] is forgotten
MutRelevance(response) ==
    IF response.kind = "number" THEN response.value ELSE DefaultRelevance

\* float(response), max(0.0, min(1.0, ...)), 0.5 on ValueError
Relevance(response) ==
    IF response.kind = "number"
    THEN Max(0, Min(100, response.value))
    ELSE DefaultRelevance

\* mutant: the weights of relevance and frequency are exchanged
MutFinalScore(relevance_score, count) ==
    relevance_score * FrequencyWeight
        + Min((count * 100) \div FrequencyFull, 100) * RelevanceWeight

FinalScore(relevance_score, count) ==
    relevance_score * RelevanceWeight
        + Min((count * 100) \div FrequencyFull, 100) * FrequencyWeight

RECURSIVE MutAssessed(_, _, _, _)
\* mutant: the first assessment that raises ends the loop
MutAssessed(ms, keys, resp, n) ==
    IF n = 0 THEN <<>>
    ELSE LET before == MutAssessed(ms, keys, resp, n - 1)
             topic == keys[n]
             count == TopicCount(ms, topic)
         IN  IF resp[topic].kind = "error" \/ Len(before) < n - 1
             THEN before
             ELSE Append(before,
                         [topic |-> TopicData(ms, topic).topic,
                          first |-> TopicData(ms, topic).first,
                          relevance_score |-> FinalScore(Relevance(resp[topic]), count),
                          mention_count |-> count])

RECURSIVE Assessed(_, _, _, _)
\* ranked_trends before the sort: the trend_info of the first n keys, a key
\* whose assessment raised left out
Assessed(ms, keys, resp, n) ==
    IF n = 0 THEN <<>>
    ELSE LET before == Assessed(ms, keys, resp, n - 1)
             topic == keys[n]
             count == TopicCount(ms, topic)
         IN  IF resp[topic].kind = "error"
             THEN before
             ELSE Append(before,
                         [topic |-> TopicData(ms, topic).topic,
                          first |-> TopicData(ms, topic).first,
                          relevance_score |-> FinalScore(Relevance(resp[topic]), count),
                          mention_count |-> count])

\* mutant: the slice [:limit] is forgotten
MutRankTrends(ms, lim, resp) ==
    LET counted == Counted(ms)
        keys == TopicKeys(counted, Len(counted))
        trends_ == Assessed(counted, keys, resp, Len(keys))
    IN  SortDesc(trends_, [k \in 1..Len(trends_) |-> trends_[k].relevance_score])

RankTrends(ms, lim, resp) ==
    LET counted == Counted(ms)
        keys == TopicKeys(counted, Len(counted))
        trends_ == Assessed(counted, keys, resp, Len(keys))
    IN  Take(SortDesc(trends_, [k \in 1..Len(trends_) |-> trends_[k].relevance_score]),
             lim)

\* the row the query of _store_trends finds: same topic string, detected
\* within the last 24 hours; 0 if there is none
ExistingTrend(table, topic) ==
    IF \E k \in 1..Len(table) : table[k].topic = topic /\ table[k].recent
    THEN CHOOSE k \in 1..Len(table) :
            /\ table[k].topic = topic /\ table[k].recent
            /\ \A j \in 1..(k - 1) : ~(table[j].topic = topic /\ table[j].recent)
    ELSE 0

\* the table after the commit for one trend
StoreOne(table, trend) ==
    LET existing == ExistingTrend(table, trend.topic)
    IN  IF existing # 0
        THEN [table EXCEPT ![existing].relevance_score = trend.relevance_score,
                           ![existing].first = trend.first]
        ELSE Append(table, [id |-> Len(table) + 1, topic |-> trend.topic,
                            first |-> trend.first,
                            relevance_score |-> trend.relevance_score,
                            recent |-> TRUE])

\* the dict appended to stored_trends for one trend, read back from its row
StoredOne(table, trend) ==
    LET after == StoreOne(table, trend)
        row == after[ExistingTrend(after, trend.topic)]
    IN  [id |-> row.id, topic |-> row.topic, first |-> row.first,
         relevance_score |-> row.relevance_score]

RECURSIVE StoreTrends(_, _, _)
\* [table, stored] after the first n trends were stored
StoreTrends(table, ts, n) ==
    IF n = 0 THEN [table |-> table, stored |-> <<>>]
    ELSE LET before == StoreTrends(table, ts, n - 1)
         IN  [table |-> StoreOne(before.table, ts[n]),
              stored |-> Append(before.stored, StoredOne(before.table, ts[n]))]

ResponseMaps(keys) ==
    {r \in [keys -> PlainResponses \cup OddResponses] :
        Cardinality({k \in keys : r[k] \in OddResponses}) <= MaxOddResponses}

RankInit ==
    /\ NoRun
    /\ CalcIdle
    /\ TriggerIdle
    /\ OthersIdle
    /\ topics \in MentionLists
    /\ limit \in Limits
    /\ responses \in ResponseMaps({Lower(Counted(topics)[k].topic) :
                                      k \in 1..Len(Counted(topics))})
    /\ trend_table \in InitialTrendTables
    /\ ranked_trends = <<>>
    /\ stored_trends = <<>>
    /\ agent_pc = "rank"

\* step 3 of _execute_logic
RankTrendsCall ==
    /\ agent_pc = "rank"
    /\ ranked_trends' = RankTrends(topics, limit, responses)
    /\ agent_pc' = "store"
    /\ UNCHANGED <<wfVars, calcVars, trigVars, otherVars, topics, limit, responses,
                   trend_table, stored_trends>>

\* step 4 of _execute_logic: one commit per trend; the first failing
\* database call ends the loop and _store_trends raises
StoreTrendsCall ==
    /\ agent_pc = "store"
    /\ \E failing \in 0..Len(ranked_trends) :
         IF failing = 0
         THEN LET done == StoreTrends(trend_table, ranked_trends, Len(ranked_trends))
              IN  /\ trend_table' = done.table
                  /\ stored_trends' = done.stored
                  /\ agent_pc' = "done"
         ELSE /\ trend_table' =
                    StoreTrends(trend_table, ranked_trends, failing - 1).table
              /\ stored_trends' = stored_trends
              /\ agent_pc' = "raised"
    /\ UNCHANGED <<wfVars, calcVars, trigVars, otherVars, topics, limit, responses,
                   ranked_trends>>

RankNext == RankTrendsCall \/ StoreTrendsCall

RankSpec == RankInit /\ [][RankNext]_vars

----------------------------------------------------------------------------
(* Runs started by the triggers.  run-now and the daily cron job call       *)
(* run_daily_automation, a custom one-shot job invokes the compiled graph   *)
(* itself.  Every run has a LinkedInWorkflowState of its own; the runs      *)
(* share the Post table, the MemorySaver and the activity log, and their    *)
(* supersteps interleave at will (a stage awaits its agents).  A run is     *)
(* followed for its first MaxSupersteps supersteps; what a run does up to   *)
(* its recursion limit is the subject of Spec.                              *)

\* most runs started
MaxTriggers == 2
\* last second the clock reaches
MaxClock == 1
\* supersteps of one run that are followed
MaxSupersteps == 5

Triggers == {"run_now", "cron", "custom_job"}

\* what the trend agent hands a triggered run, if it does not fail
TriggerTrendLists == {<<[id |-> 1, relevance_score |-> 100]>>}

\* a custom request with the parameters of the daily run (max_posts 3, tones
\* professional and casual); _run_custom_workflow passes no recursion_limit
CustomRequestConfig ==
    [DefaultConfig EXCEPT !.recursion_limit = DefaultRecursionLimit]

TriggerConfig(trigger) ==
    IF trigger = "custom_job" THEN CustomRequestConfig ELSE DefaultConfig

\* f"daily_{...}" and f"custom_{...}" with strftime('%Y%m%d_%H%M%S')
WorkflowId(trigger, now) ==
    [prefix |-> IF trigger = "custom_job" THEN "custom" ELSE "daily", stamp |-> now]

\* the function that hands the initial state to the graph
EntryPoint(trigger) ==
    IF trigger = "custom_job" THEN "_run_custom_workflow" ELSE "run_daily_automation"

InitialState(trigger) ==
    [current_step |-> IF trigger = "custom_job" THEN "" ELSE "starting",
     trends |-> <<>>, generated_content |-> <<>>, published_posts |-> <<>>,
     errors |-> <<>>]

NewInvocation(trigger, now) ==
    [trigger |-> trigger, workflow_id |-> WorkflowId(trigger, now),
     entry_point |-> EntryPoint(trigger), config |-> TriggerConfig(trigger),
     state |-> InitialState(trigger), pc |-> "analyze_trends", steps |-> 0,
     result |-> "none", summary |-> NoSummary, logged |-> FALSE]

\* mutant: one state object shared by every run
MutPutState(invs, i, st) == [k \in 1..Len(invs) |-> [invs[k] EXCEPT !.state = st]]

\* a stage returns the state object it was given to the run it belongs to
PutState(invs, i, st) == [invs EXCEPT ![i].state = st]

\* checkpointer.put under config["configurable"]["thread_id"]
SaveCheckpoint(saved, thread_id, st) ==
    [id \in DOMAIN saved \cup {thread_id} |-> IF id = thread_id THEN st ELSE saved[id]]

AnalyzeResults(st) ==
    {[st EXCEPT !.current_step = "analyzing_trends", !.trends = ts] :
        ts \in TriggerTrendLists}
    \cup {[st EXCEPT !.current_step = "analyzing_trends",
                     !.errors = StageError(st.errors, "Trend analysis failed")]}

FilterResult(st, cfg) ==
    [st EXCEPT !.current_step = "filtering_trends",
               !.trends = IF st.trends = <<>> THEN st.trends
                          ELSE FilterTrends(st.trends, cfg.max_posts_per_day)]

\* every request of a triggered run succeeds
GenerateResult(st, cfg, q, first_id) ==
    LET pairs == Pairs(st.trends, cfg.content_tones)
        outcome == [k \in 1..Len(pairs) |-> [ok |-> TRUE, q |-> q]]
    IN  [st EXCEPT !.current_step = "generating_content",
                   !.generated_content = Generate(pairs, outcome, Len(pairs), first_id)]

ReviewResult(st) ==
    [st EXCEPT !.current_step = "reviewing_content",
               !.generated_content = ReviewContent(st.generated_content)]

\* the superstep is over: the run holds the new state and the checkpointer
\* has saved it under the run's thread id
Advance(i, after, next_pc) ==
    /\ invocations' = [PutState(invocations, i, after) EXCEPT
                          ![i].pc = next_pc, ![i].steps = @ + 1]
    /\ checkpoints' = SaveCheckpoint(checkpoints, invocations[i].workflow_id, after)

wfButPosts == <<kind, config, pc, current_step, trends, generated_content,
                published_posts, errors, steps, decision, total_generated,
                result, summary, stage_failed, call_failed, gen_calls, db_calls>>

TriggerInit ==
    /\ kind = "triggers"
    /\ config = DefaultConfig
    /\ pc = "idle"
    /\ current_step = ""
    /\ trends = <<>>
    /\ generated_content = <<>>
    /\ published_posts = <<>>
    /\ errors = <<>>
    /\ steps = 0
    /\ decision = "none"
    /\ total_generated = 0
    /\ posts = <<>>
    /\ result = "none"
    /\ NothingYet
    /\ CalcIdle
    /\ RankIdle
    /\ TriggerIdle
    /\ OthersIdle

\* utcnow() moves on to the next second; seconds are counted from the first
\* trigger and matter while another trigger can fire
Tick ==
    /\ clock < MaxClock
    /\ invocations # <<>>
    /\ Len(invocations) < MaxTriggers
    /\ clock' = clock + 1
    /\ actor' = 0
    /\ UNCHANGED <<wfVars, calcVars, rankVars, otherVars, invocations, checkpoints,
                   activity_log>>

\* run_workflow_now, _run_daily_workflow or _run_custom_workflow builds the
\* initial state and invokes the graph; the daily cron job fires once
Trigger ==
    /\ Len(invocations) < MaxTriggers
    /\ \E trigger \in Triggers :
         /\ trigger = "cron" =>
               \A k \in 1..Len(invocations) : invocations[k].trigger # "cron"
         /\ invocations' = Append(invocations, NewInvocation(trigger, clock))
         /\ checkpoints' = SaveCheckpoint(checkpoints, WorkflowId(trigger, clock),
                                          InitialState(trigger))
    /\ actor' = Len(invocations) + 1
    /\ UNCHANGED <<wfVars, calcVars, rankVars, otherVars, clock, activity_log>>

\* one superstep of one run
RunStage ==
    \E i \in 1..Len(invocations) :
        LET run == invocations[i]
        IN  /\ run.pc \in Nodes
            /\ run.steps < Min(run.config.recursion_limit, MaxSupersteps)
            /\ \/ /\ run.pc = "analyze_trends"
                  /\ \E after \in AnalyzeResults(run.state) :
                        Advance(i, after, "filter_trends")
                  /\ posts' = posts
                  /\ post_owner' = post_owner
               \/ /\ run.pc = "filter_trends"
                  /\ Advance(i, FilterResult(run.state, run.config), "generate_content")
                  /\ posts' = posts
                  /\ post_owner' = post_owner
               \/ /\ run.pc = "generate_content"
                  /\ \E q \in Qualities :
                        LET after == GenerateResult(run.state, run.config, q,
                                                    Len(posts) + 1)
                        IN  /\ Advance(i, after, "review_content")
                            /\ posts' = posts \o Drafts(Len(after.generated_content))
                            /\ post_owner' =
                                  post_owner \o [k \in 1..Len(after.generated_content) |-> i]
               \/ /\ run.pc = "review_content"
                  /\ LET after == ReviewResult(run.state)
                     IN  Advance(i, after,
                                 Route(ShouldPublishContent(after.generated_content)))
                  /\ posts' = posts
                  /\ post_owner' = post_owner
            /\ actor' = i
            /\ UNCHANGED <<wfButPosts, calcVars, rankVars, sideVars, marks, clock,
                           activity_log>>

RunSummary(st, form) ==
    IF form = "object"
    THEN [trends_found |-> Len(st.trends),
          content_generated |-> Len(st.generated_content),
          posts_scheduled |-> Len(st.published_posts),
          errors |-> st.errors]
    ELSE NoSummary

\* the AgentActivity row _log_workflow_execution adds for a result
ActivityRow(result_, details) ==
    [agent_name |-> "LinkedInWorkflow", activity_type |-> "daily_automation",
     status |-> IF result_ = "success" THEN "success" ELSE "error",
     details |-> details]

\* the graph of one run reached END.  run_daily_automation returns its
\* result dict, which run_workflow_now and _run_daily_workflow log as an
\* activity; _run_custom_workflow writes to the logger and returns nothing
RunReturns ==
    \E i \in 1..Len(invocations) :
        LET run == invocations[i]
        IN  /\ run.pc = "end"
            /\ run.result = "none"
            /\ IF run.entry_point = "run_daily_automation"
               THEN \E form \in FinalStateForms :
                      /\ invocations' =
                            [invocations EXCEPT
                                ![i].result = "success",
                                ![i].summary = RunSummary(run.state, form),
                                ![i].logged = TRUE]
                      /\ activity_log' =
                            Append(activity_log,
                                   ActivityRow("success",
                                               <<RunSummary(run.state, form)>>))
               ELSE /\ invocations' = [invocations EXCEPT ![i].result = "nothing"]
                    /\ activity_log' = activity_log
            /\ actor' = i
            /\ UNCHANGED <<wfVars, calcVars, rankVars, otherVars, clock, checkpoints>>

TriggerNext == Tick \/ Trigger \/ RunStage \/ RunReturns

TriggerSpec == TriggerInit /\ [][TriggerNext]_vars

----------------------------------------------------------------------------
(* _avoid_duplicate_topics as a function of the trend list, the Post table  *)
(* and utcnow().  Times are whole days; trend_topic_id 0 stands for NULL.   *)

\* longest trend list handed to the filter
MaxDupTrends == 3
\* most rows of the Post table
MaxPostRows == 2

DuplicateWindowDays == 7

TrendIds == {1, 2, 3}
NowDays == {9}
CreatedDays == {1, 2, 9}
HistoryOutcomes == {"ok", "connect_error", "query_error"}

DupTrendLists == UNION {[1..n -> [id : TrendIds]] : n \in 0..MaxDupTrends}

PostRowLists ==
    UNION {[1..n -> [trend_topic_id : 0..2, created_at : CreatedDays]] :
              n \in 0..MaxPostRows}

\* mutant: the posts of any age count
MutRecentTopics(rows, now) ==
    {rows[k].trend_topic_id :
        k \in {j \in 1..Len(rows) : rows[j].trend_topic_id # 0}}

\* recent_topics: the trend_topic_id of the posts with
\* created_at >= utcnow() - 7 days that have one
RecentTopics(rows, now) ==
    {rows[k].trend_topic_id :
        k \in {j \in 1..Len(rows) :
                 /\ rows[j].created_at >= now - DuplicateWindowDays
                 /\ rows[j].trend_topic_id # 0}}

\* the list returned: filtered, or the argument if a database call raised
AvoidDuplicateTopics(ts, rows, now, outcome) ==
    IF outcome = "ok"
    THEN SelectSeq(ts, LAMBDA trend : trend.id \notin RecentTopics(rows, now))
    ELSE ts

DupInit ==
    /\ NoRun
    /\ CalcIdle
    /\ RankIdle
    /\ TriggerIdle
    /\ OwnerIdle
    /\ StoreIdle
    /\ ServiceIdle
    /\ AgentIdle
    /\ now_day \in NowDays
    /\ candidate_trends \in DupTrendLists
    /\ post_rows \in PostRowLists
    /\ history_read \in HistoryOutcomes
    /\ filtered_trends = <<>>
    /\ dup_pc = "call"

AvoidDuplicateTopicsCall ==
    /\ dup_pc = "call"
    /\ filtered_trends' =
          AvoidDuplicateTopics(candidate_trends, post_rows, now_day, history_read)
    /\ dup_pc' = "returned"
    /\ UNCHANGED <<wfVars, calcVars, rankVars, trigVars, ownerVars, storeVars,
                   serviceVars, agentVars, now_day, candidate_trends, post_rows,
                   history_read>>

DupNext == AvoidDuplicateTopicsCall

DupSpec == DupInit /\ [][DupNext]_vars

----------------------------------------------------------------------------
(* _store_trends called again and again while time passes.  The function   *)
(* awaits nothing, so a call runs from its first query to its last commit   *)
(* before another call starts; calls of overlapping analyses follow one     *)
(* another in any order.  A time is a number of half days (12 hours).       *)

\* most calls of _store_trends
MaxStoreCalls == 3
\* last time the clock of the store reaches
MaxStoreNow == 4

\* timedelta(hours=24) in half days
StoreWindow == 2

StoreTopics == {"AI", "cloud"}
StoreScores == {500, 900}

\* what _rank_trends hands over: no topic twice
StoreTrendLists ==
    UNION {{ts \in [1..n -> [topic : StoreTopics, relevance_score : StoreScores]] :
               \A j, k \in 1..n : j # k => ts[j].topic # ts[k].topic} : n \in 0..2}

\* mutant: the window is 12 hours
MutExistingTrendSince(table, topic, now) ==
    IF \E k \in 1..Len(table) :
          table[k].topic = topic /\ table[k].detected_at >= now - 1
    THEN CHOOSE k \in 1..Len(table) :
            /\ table[k].topic = topic /\ table[k].detected_at >= now - 1
            /\ \A j \in 1..(k - 1) :
                  ~(table[j].topic = topic /\ table[j].detected_at >= now - 1)
    ELSE 0

\* the row found by the query: topic == trend_data['topic'] and
\* detected_at >= utcnow() - 24 hours; 0 if there is none
ExistingTrendSince(table, topic, now) ==
    IF \E k \in 1..Len(table) :
          table[k].topic = topic /\ table[k].detected_at >= now - StoreWindow
    THEN CHOOSE k \in 1..Len(table) :
            /\ table[k].topic = topic /\ table[k].detected_at >= now - StoreWindow
            /\ \A j \in 1..(k - 1) :
                  ~(table[j].topic = topic /\ table[j].detected_at >= now - StoreWindow)
    ELSE 0

\* the table after the commit for one trend; detected_at of a new row is
\* the column default utcnow()
StoreOneAt(table, trend, now) ==
    LET existing == ExistingTrendSince(table, trend.topic, now)
    IN  IF existing # 0
        THEN [table EXCEPT ![existing].relevance_score = trend.relevance_score]
        ELSE Append(table, [id |-> Len(table) + 1, topic |-> trend.topic,
                            relevance_score |-> trend.relevance_score,
                            detected_at |-> now])

RECURSIVE StoreTrendsAt(_, _, _, _)
\* the table after the first n trends were stored
StoreTrendsAt(table, ts, now, n) ==
    IF n = 0 THEN table
    ELSE StoreOneAt(StoreTrendsAt(table, ts, now, n - 1), ts[n], now)

StoreInit ==
    /\ NoRun
    /\ CalcIdle
    /\ RankIdle
    /\ TriggerIdle
    /\ OwnerIdle
    /\ DupIdle
    /\ ServiceIdle
    /\ AgentIdle
    /\ store_now = 0
    /\ topic_rows = <<>>
    /\ store_calls = <<>>

TimePasses ==
    /\ store_now < MaxStoreNow
    /\ store_now' = store_now + 1
    /\ UNCHANGED <<wfVars, calcVars, rankVars, trigVars, ownerVars, dupVars,
                   serviceVars, agentVars, topic_rows, store_calls>>

\* one call of _store_trends; the first failing database call ends it
StoreTrendsAgain ==
    /\ Len(store_calls) < MaxStoreCalls
    /\ \E ts \in StoreTrendLists, failing \in 0..2 :
         /\ failing <= Len(ts)
         /\ LET n == IF failing = 0 THEN Len(ts) ELSE failing - 1
                after == StoreTrendsAt(topic_rows, ts, store_now, n)
            IN  /\ topic_rows' = after
                /\ store_calls' =
                      Append(store_calls,
                             [at |-> store_now,
                              created |-> Len(after) - Len(topic_rows),
                              updated |-> n - (Len(after) - Len(topic_rows))])
    /\ UNCHANGED <<wfVars, calcVars, rankVars, trigVars, ownerVars, dupVars,
                   serviceVars, agentVars, store_now>>

StoreNext == TimePasses \/ StoreTrendsAgain

StoreSpec == StoreInit /\ [][StoreNext]_vars

----------------------------------------------------------------------------
(* Runs that reach schedule_posts side by side.  A run started by a trigger *)
(* approves nothing (TriggeredRunsNeverApprove), so the runs that mark      *)
(* posts are runs taken over at the review stage with candidates whose      *)
(* posts carry "quality_metrics", as in StageInit; triggers may start       *)
(* further runs beside them.  schedule_posts awaits nothing: its database   *)
(* calls for all its posts happen in one step.                              *)

\* most runs taken over at the review stage
MaxTakeovers == 2

\* the trend behind the candidates of a run taken over
TakeoverTrends == <<[id |-> 1, relevance_score |-> 50]>>

\* the state of a run after generate_content, its candidates' posts stored
\* under the ids first_id, first_id + 1, ...
TakeoverState(first_id, q) ==
    LET pairs == Pairs(TakeoverTrends, DefaultConfig.content_tones)
    IN  [current_step |-> "generating_content", trends |-> TakeoverTrends,
         generated_content |->
            [k \in 1..Len(pairs) |->
                Content(PostWithQuality(first_id + k - 1, q[k]), q[k],
                        pairs[k].trend, pairs[k].tone)],
         published_posts |-> <<>>, errors |-> <<>>]

Takeover(first_id, q) ==
    [NewInvocation("run_now", 0) EXCEPT !.state = TakeoverState(first_id, q),
                                        !.pc = "review_content", !.steps = 3]

\* candidates of one run taken over
TakeoverSize == Len(Pairs(TakeoverTrends, DefaultConfig.content_tones))

\* mutant: every post up to the highest id scheduled is marked
MutMarkScheduled(table, done) ==
    [id \in 1..Len(table) |->
        IF \E k \in 1..Len(done) : done[k].post_id >= id
        THEN [status |-> "scheduled",
              scheduled_at |->
                 done[CHOOSE k \in 1..Len(done) : done[k].post_id >= id].scheduled_at]
        ELSE table[id]]

\* post.status = "scheduled" and post.scheduled_at for the posts of done
MarkScheduled(table, done) ==
    [id \in 1..Len(table) |->
        IF \E k \in 1..Len(done) : done[k].post_id = id
        THEN [status |-> "scheduled",
              scheduled_at |->
                 done[CHOOSE k \in 1..Len(done) : done[k].post_id = id].scheduled_at]
        ELSE table[id]]

\* the published_posts entries schedule_posts appends for a run
PostsScheduled(st, cfg, h, db) ==
    LET posts_to_schedule == Take(ApprovedContent(st.generated_content),
                                  cfg.max_posts_per_day)
        n == Len(posts_to_schedule)
        times == CalculateOptimalPostTimes(n, [hour |-> h, minute |-> 0])
    IN  IF Aborted(db) THEN <<>> ELSE Scheduled(posts_to_schedule, times, db, n)

ScheduleResult(st, cfg, h, db) ==
    [st EXCEPT !.current_step = "scheduling_posts",
               !.published_posts = @ \o PostsScheduled(st, cfg, h, db),
               !.errors = IF Aborted(db)
                          THEN StageError(@, "Post scheduling error")
                          ELSE @]

MonitorResult(st) == [st EXCEPT !.current_step = "monitoring_engagement"]

PublishInit ==
    /\ kind = "triggers"
    /\ config = DefaultConfig
    /\ pc = "idle"
    /\ current_step = ""
    /\ trends = <<>>
    /\ generated_content = <<>>
    /\ published_posts = <<>>
    /\ errors = <<>>
    /\ steps = 0
    /\ decision = "none"
    /\ total_generated = 0
    /\ result = "none"
    /\ NothingYet
    /\ CalcIdle
    /\ RankIdle
    /\ DupIdle
    /\ StoreIdle
    /\ ServiceIdle
    /\ AgentIdle
    /\ clock = 0
    /\ activity_log = <<>>
    /\ actor = 0
    /\ marks = <<>>
    /\ \E n \in 1..MaxTakeovers :
         /\ \E q \in [1..n -> [1..TakeoverSize -> PostQualities]] :
               invocations =
                  [i \in 1..n |-> Takeover((i - 1) * TakeoverSize + 1, q[i])]
         /\ posts = Drafts(n * TakeoverSize)
         /\ post_owner = [id \in 1..(n * TakeoverSize) |->
                             ((id - 1) \div TakeoverSize) + 1]
    /\ checkpoints = SaveCheckpoint(<<>>, WorkflowId("run_now", 0),
                                    invocations[Len(invocations)].state)

\* schedule_posts of one run
RunSchedules ==
    \E i \in 1..Len(invocations) :
        LET run == invocations[i]
            n == Len(Take(ApprovedContent(run.state.generated_content),
                          run.config.max_posts_per_day))
        IN  /\ run.pc = "schedule_posts"
            /\ run.steps < run.config.recursion_limit
            /\ \E h \in NowHours, db \in [1..n -> DbOutcomes] :
                  LET done == PostsScheduled(run.state, run.config, h, db)
                  IN  /\ Aborted(db) => \A k \in 2..n : db[k] = "ok"
                      /\ Advance(i, ScheduleResult(run.state, run.config, h, db),
                                 "monitor_engagement")
                      /\ posts' = MarkScheduled(posts, done)
                      /\ marks' = marks \o
                            [k \in 1..Len(done) |->
                                [post_id |-> done[k].post_id, by |-> i,
                                 before |-> posts[done[k].post_id].status]]
            /\ actor' = i
            /\ UNCHANGED <<wfButPosts, calcVars, rankVars, sideVars, post_owner,
                           clock, activity_log>>

\* monitor of one run
RunMonitors ==
    \E i \in 1..Len(invocations) :
        LET run == invocations[i]
        IN  /\ run.pc = "monitor_engagement"
            /\ run.steps < run.config.recursion_limit
            /\ Advance(i, MonitorResult(run.state), "end")
            /\ actor' = i
            /\ UNCHANGED <<wfVars, calcVars, rankVars, otherVars, clock,
                           activity_log>>

PublishNext ==
    \/ Tick
    \/ Trigger
    \/ RunStage
    \/ RunSchedules
    \/ RunMonitors
    \/ RunReturns

PublishSpec == PublishInit /\ [][PublishNext]_vars

----------------------------------------------------------------------------
(* The scheduler service: start_automation and stop_automation called in    *)
(* any order.  Neither awaits anything, so a call runs to its return before *)
(* the next one starts.  add_job, scheduler.start() and                     *)
(* scheduler.shutdown() are library calls that succeed or raise.            *)

\* most calls of start_automation and stop_automation
MaxServiceCalls == 5

ServiceJobs == {"daily_linkedin_automation", "hourly_trend_analysis",
                "engagement_monitoring"}

StartOutcomes == {"ok", "add_job_raises", "start_raises"}
StopOutcomes == {"ok", "shutdown_raises"}

\* three add_job(..., replace_existing=True)
AddJobs(js) ==
    [id \in DOMAIN js \cup ServiceJobs |->
        IF id \in ServiceJobs
        THEN (IF id \in DOMAIN js THEN js[id] + 1 ELSE 1)
        ELSE js[id]]

ServiceResult(op, success, message) ==
    [op |-> op, success |-> success, message |-> message]

\* mutant: start_automation does not look at is_running
MutStartAutomationResult(running, state, js, outcome) ==
    IF outcome = "add_job_raises"
    THEN [is_running |-> running, scheduler_state |-> state, jobs |-> js,
          result |-> ServiceResult("start", FALSE, "Failed to start automation")]
    ELSE IF outcome = "start_raises"
    THEN [is_running |-> running, scheduler_state |-> state, jobs |-> AddJobs(js),
          result |-> ServiceResult("start", FALSE, "Failed to start automation")]
    ELSE [is_running |-> TRUE, scheduler_state |-> "running", jobs |-> AddJobs(js),
          result |-> ServiceResult("start", TRUE, "LinkedIn automation started")]

\* the service after start_automation, and what it returned
StartAutomationResult(running, state, js, outcome) ==
    IF running
    THEN [is_running |-> running, scheduler_state |-> state, jobs |-> js,
          result |-> ServiceResult("start", FALSE, "Automation already running")]
    ELSE IF outcome = "add_job_raises"
    THEN [is_running |-> running, scheduler_state |-> state, jobs |-> js,
          result |-> ServiceResult("start", FALSE, "Failed to start automation")]
    ELSE IF outcome = "start_raises"
    THEN [is_running |-> running, scheduler_state |-> state, jobs |-> AddJobs(js),
          result |-> ServiceResult("start", FALSE, "Failed to start automation")]
    ELSE [is_running |-> TRUE, scheduler_state |-> "running", jobs |-> AddJobs(js),
          result |-> ServiceResult("start", TRUE, "LinkedIn automation started")]

\* the service after stop_automation, and what it returned; whether a
\* scheduler that was shut down keeps its jobs is the library's business
StopAutomationResult(running, state, js, outcome, keeps_jobs) ==
    IF ~running
    THEN [is_running |-> running, scheduler_state |-> state, jobs |-> js,
          result |-> ServiceResult("stop", FALSE, "Automation not running")]
    ELSE IF outcome = "shutdown_raises"
    THEN [is_running |-> running, scheduler_state |-> state, jobs |-> js,
          result |-> ServiceResult("stop", FALSE, "Failed to stop automation")]
    ELSE [is_running |-> FALSE, scheduler_state |-> "stopped",
          jobs |-> IF keeps_jobs THEN js ELSE <<>>,
          result |-> ServiceResult("stop", TRUE, "LinkedIn automation stopped")]

ServiceInit ==
    /\ NoRun
    /\ CalcIdle
    /\ RankIdle
    /\ TriggerIdle
    /\ OwnerIdle
    /\ DupIdle
    /\ StoreIdle
    /\ AgentIdle
    /\ ServiceIdle

ServiceAfter(after) ==
    /\ is_running' = after.is_running
    /\ scheduler_state' = after.scheduler_state
    /\ jobs' = after.jobs
    /\ service_calls' = Append(service_calls, after.result)
    /\ UNCHANGED <<wfVars, calcVars, rankVars, trigVars, ownerVars, dupVars,
                   storeVars, agentVars>>

StartAutomation ==
    /\ Len(service_calls) < MaxServiceCalls
    /\ \E outcome \in StartOutcomes :
         ServiceAfter(StartAutomationResult(is_running, scheduler_state, jobs,
                                            outcome))

StopAutomation ==
    /\ Len(service_calls) < MaxServiceCalls
    /\ \E outcome \in StopOutcomes, keeps_jobs \in BOOLEAN :
         ServiceAfter(StopAutomationResult(is_running, scheduler_state, jobs,
                                           outcome, keeps_jobs))

ServiceNext == StartAutomation \/ StopAutomation

ServiceSpec == ServiceInit /\ [][ServiceNext]_vars

----------------------------------------------------------------------------
(* BaseAgent.execute as a function of how the agent's validation, its logic *)
(* and the database calls of _log_activity go.                              *)

\* most calls of execute
MaxExecutions == 3

ValidationOutcomes == {"valid", "invalid"}
LogicOutcomes == {"returns", "raises"}
WriteOutcomes == {"ok", "connect_error", "commit_error"}

\* mutant: _log_activity without its try block
MutLogActivity(status, write) ==
    [rows |-> IF write = "ok" THEN <<[activity_type |-> "execution", status |-> status]>>
              ELSE <<>>,
     raised |-> write # "ok"]

\* _log_activity: the row it commits, if the database calls succeed; their
\* exception is caught and logged
LogActivity(status, write) ==
    [rows |-> IF write = "ok" THEN <<[activity_type |-> "execution", status |-> status]>>
              ELSE <<>>,
     raised |-> FALSE]

\* the try block of execute up to its return statement
TryBlock(validation, logic, write) ==
    IF validation = "invalid"
    THEN [exception |-> "validation_message", logic_invoked |-> FALSE,
          log_attempts |-> 0, rows |-> <<>>]
    ELSE IF logic = "raises"
    THEN [exception |-> "logic_message", logic_invoked |-> TRUE,
          log_attempts |-> 0, rows |-> <<>>]
    ELSE LET log == LogActivity("success", write)
         IN  [exception |-> IF log.raised THEN "log_message" ELSE "none",
              logic_invoked |-> TRUE, log_attempts |-> 1, rows |-> log.rows]

\* execute: the dict returned, or raised = TRUE if an exception leaves it
Execute(validation, logic, write) ==
    LET body == TryBlock(validation, logic, write)
    IN  IF body.exception = "none"
        THEN [raised |-> FALSE, success |-> TRUE, data |-> "logic_result",
              error |-> "none", logic_invoked |-> body.logic_invoked,
              log_attempts |-> body.log_attempts, rows |-> body.rows]
        ELSE LET log == LogActivity("error", write)
             IN  [raised |-> log.raised, success |-> FALSE, data |-> "none",
                  error |-> body.exception, logic_invoked |-> body.logic_invoked,
                  log_attempts |-> body.log_attempts + 1,
                  rows |-> body.rows \o log.rows]

AgentInit ==
    /\ NoRun
    /\ CalcIdle
    /\ RankIdle
    /\ TriggerIdle
    /\ OwnerIdle
    /\ DupIdle
    /\ StoreIdle
    /\ ServiceIdle
    /\ AgentIdle

ExecuteCall ==
    /\ Len(executions) < MaxExecutions
    /\ \E validation \in ValidationOutcomes, logic \in LogicOutcomes,
          write \in WriteOutcomes :
         LET out == Execute(validation, logic, write)
         IN  /\ agent_activity' = agent_activity \o out.rows
             /\ executions' =
                   Append(executions,
                          [validation |-> validation, logic |-> logic,
                           write |-> write, raised |-> out.raised,
                           success |-> out.success, data |-> out.data,
                           error |-> out.error,
                           logic_invoked |-> out.logic_invoked,
                           log_attempts |-> out.log_attempts])
    /\ UNCHANGED <<wfVars, calcVars, rankVars, trigVars, ownerVars, dupVars,
                   storeVars, serviceVars>>

AgentNext == ExecuteCall

AgentSpec == AgentInit /\ [][AgentNext]_vars

----------------------------------------------------------------------------
(* Claims C1 - C3: the decision after review_content and the stage order *)

RunKinds == {"daily", "custom"}

\* In a run started at the entry point review_content finds no
\* "quality_metrics" inside content["post"], scores every candidate
\* 30 * relevance <= 30 and approves none: schedule_posts and monitor are
\* reached only from a candidate list that a caller of the review stage built.
RunNeverApproves ==
    kind \in RunKinds =>
        /\ ApprovedCount(generated_content) = 0
        /\ pc \notin {"schedule_posts", "monitor_engagement"}
        /\ published_posts = <<>>

\* C1: in a run where review rejects every candidate of every round
\* (the decision is never "publish"), the run ends at "end" with the decision
\* "skip" and no scheduled post, and it regenerates only while fewer than 5
\* candidates have been generated in the run.
C1_RejectedRunSkipsAtCeiling ==
    (kind \in RunKinds /\ decision # "publish") =>
        /\ pc \in {"end", "failed"} =>
              (pc = "end" /\ decision = "skip" /\ published_posts = <<>>)
        /\ (current_step = "reviewing_content" /\ decision = "regenerate")
              => total_generated < RegenerateCeiling

\* C2: in a run, after review_content the next stage is schedule_posts if a candidate
\* is approved, else generate_content if fewer than 5 candidates have been
\* generated so far in the run, else end with no scheduled post; the empty
\* candidate list included.
C2_NextStageAfterReview ==
    (kind \in RunKinds /\ current_step = "reviewing_content" /\ pc # "failed") =>
        IF ApprovedCount(generated_content) >= 1
        THEN pc = "schedule_posts"
        ELSE IF total_generated < RegenerateCeiling
             THEN pc = "generate_content"
             ELSE pc = "end" /\ published_posts = <<>>

StageOrder ==
    {<<"analyze_trends", "filter_trends">>,
     <<"filter_trends", "generate_content">>,
     <<"generate_content", "review_content">>,
     <<"review_content", "schedule_posts">>,
     <<"review_content", "generate_content">>,
     <<"review_content", "end">>,
     <<"schedule_posts", "monitor_engagement">>,
     <<"monitor_engagement", "end">>}

\* the marker each stage leaves in current_step
StepMarker(node) ==
    CASE node = "analyze_trends" -> "analyzing_trends"
      [] node = "filter_trends" -> "filtering_trends"
      [] node = "generate_content" -> "generating_content"
      [] node = "review_content" -> "reviewing_content"
      [] node = "schedule_posts" -> "scheduling_posts"
      [] node = "monitor_engagement" -> "monitoring_engagement"

\* C3: control moves from one stage only to its successor in the order
\* analyze_trends, filter_trends, generate_content, review_content,
\* schedule_posts, monitor, end; the only branch is after review_content
\* (back to generate_content, or to end); the stage that was due is the one
\* that ran; schedule_posts becomes due only right after a review that left
\* at least one approved candidate.
C3_StageOrder ==
    [][(pc' # pc /\ pc' \in Nodes \cup {"end"}) =>
          /\ <<pc, pc'>> \in StageOrder
          /\ current_step' = StepMarker(pc)
          /\ steps' = steps + 1
          /\ pc' = "schedule_posts" =>
                (pc = "review_content" /\ ApprovedCount(generated_content') >= 1)]_vars

\* C3 witness: a run went through review, schedule_posts and monitor to end
C3_Witness ==
    /\ pc = "end"
    /\ current_step = "monitoring_engagement"
    /\ ApprovedCount(generated_content) >= 1
    /\ decision = "publish"

----------------------------------------------------------------------------
(* Claims C4 - C8: the publish times *)

Indexes == 1..Len(scheduled_times)

\* C4: the call returns exactly num_posts timestamps and no two are equal.
C4_ExactlyNDistinct ==
    calc_done =>
        /\ Len(scheduled_times) = num_posts
        /\ \A i, j \in Indexes : i < j => scheduled_times[i] # scheduled_times[j]

C6_StrictlyFuture ==
    calc_done => \A i \in Indexes : scheduled_times[i] > NowMinutes

\* C6 witness: the reference time is exactly the slot hour 08:00
C6_Witness ==
    /\ calc_done
    /\ base_time = [hour |-> 8, minute |-> 0]
    /\ num_posts >= 4

Scenario == calc_done /\ base_time = [hour |-> 9, minute |-> 0] /\ num_posts = 4

C8_SlotRollJitter ==
    calc_done =>
        /\ Len(scheduled_times) = num_posts
        /\ \A k \in Indexes :
              LET i == k - 1
                  slot == <<8, 12, 17>>[(i % 3) + 1] * 60
              IN  scheduled_times[k] =
                     (IF slot > NowMinutes THEN slot ELSE slot + 1440) + i * 30

\* C8 witness: at 12:30 the slots 08:00 and 12:00 have passed and 17:00 has not
C8_Witness ==
    /\ calc_done
    /\ base_time = [hour |-> 12, minute |-> 30]
    /\ num_posts >= 4
    /\ scheduled_times[3] < 1440
    /\ scheduled_times[1] >= 1440

----------------------------------------------------------------------------
(* Claims C9 - C10: review_content *)

Reviewed == current_step \in {"reviewing_content", "scheduling_posts",
                             "monitoring_engagement"}

Candidates == 1..Len(generated_content)

\* C9: after review_content every candidate has a composite score and is
\* approved exactly if that score is at least 40; before review no candidate
\* is approved; a stage other than review_content leaves the candidates'
\* flags as they are or replaces the list by candidates without a flag.
C9_ApprovedIffScoreAtLeast40 ==
    /\ [](\A k \in Candidates :
            /\ generated_content[k].approved =
                  (generated_content[k].has_score
                      /\ generated_content[k].composite_score >= 400)
            /\ Reviewed => generated_content[k].has_score)
    /\ [][pc # "review_content" =>
            \/ generated_content' = generated_content
            \/ \A k \in 1..Len(generated_content') :
                  ~generated_content'[k].approved]_vars

\* C9 witness: the boundary: a candidate with score 40.0 approved next to a
\* candidate with score 39.6 rejected
C9_Witness ==
    /\ Reviewed
    /\ \E k, m \in Candidates :
          /\ generated_content[k].composite_score = 400
          /\ generated_content[k].approved
          /\ generated_content[m].composite_score = 396
          /\ ~generated_content[m].approved

\* C10: review_content leaves a permutation of its input list (same
\* candidates, none added or removed), ordered by descending composite score,
\* candidates with equal scores in their input order.
C10_ReviewSortsStably ==
    [][(pc = "review_content" /\ steps' = steps + 1) =>
          LET old == generated_content
              new == generated_content'
              pos(k) == CHOOSE i \in 1..Len(old) : old[i].post.id = new[k].post.id
          IN  /\ Len(new) = Len(old)
              /\ \A i \in 1..Len(old) : \E k \in 1..Len(new) :
                    new[k].post.id = old[i].post.id
              /\ \A k \in 1..Len(new) :
                    /\ \E i \in 1..Len(old) : old[i].post.id = new[k].post.id
                    /\ new[k].post = old[pos(k)].post
                    /\ new[k].trend_info = old[pos(k)].trend_info
                    /\ new[k].tone = old[pos(k)].tone
                    /\ new[k].quality_metrics = old[pos(k)].quality_metrics
              /\ \A k, m \in 1..Len(new) :
                    k < m =>
                       /\ new[k].composite_score >= new[m].composite_score
                       /\ new[k].composite_score = new[m].composite_score
                             => pos(k) < pos(m)]_vars

\* C10 witness: a reviewed list of at least three candidates in which review
\* moved a candidate forward and two candidates tie
C10_Witness ==
    /\ current_step = "reviewing_content"
    /\ Len(generated_content) >= 3
    /\ \E k, m \in Candidates :
          k < m /\ generated_content[k].post.id > generated_content[m].post.id
    /\ \E k, m \in Candidates :
          /\ k < m
          /\ generated_content[k].composite_score = generated_content[m].composite_score

----------------------------------------------------------------------------
(* Claims C11 - C13: the trend ranker *)

Ranked == agent_pc \in {"store", "done", "raised"}

RankedIndexes == 1..Len(ranked_trends)

\* the lower-cased topics among the mentions the ranker counts
CountedKeys == {Lower(Counted(topics)[k].topic) : k \in 1..Len(Counted(topics))}

\* C11: the ranker returns at most limit trends, sorted by descending final
\* score, no two of them with the same lower-cased topic string.
C11_AtMostLimitSortedDistinct ==
    Ranked =>
        /\ Len(ranked_trends) <= limit
        /\ \A i, j \in RankedIndexes :
              i < j =>
                 /\ ranked_trends[i].relevance_score >= ranked_trends[j].relevance_score
                 /\ Lower(ranked_trends[i].topic) # Lower(ranked_trends[j].topic)

\* C11 witness: a topic mentioned as "AI" and as "ai" became one trend, and
\* the sort moved the topic met second ahead of it, the limit being two
C11_Witness ==
    /\ Ranked
    /\ limit = 2
    /\ Len(ranked_trends) = 2
    /\ \E i, j \in 1..Len(topics) : topics[i].topic = "AI" /\ topics[j].topic = "ai"
    /\ ranked_trends[1].relevance_score > ranked_trends[2].relevance_score
    /\ ranked_trends[1].first > ranked_trends[2].first

\* three topics mentioned 5, 2 and 1 times, answered 0.9, 0.4 and 0.9, limit 2
RankScenario(a, b, c) ==
    /\ Ranked
    /\ limit = 2
    /\ Len(topics) = 8
    /\ CountedKeys = {a, b, c}
    /\ TopicCount(topics, a) = 5 /\ responses[a] = [kind |-> "number", value |-> 90]
    /\ TopicCount(topics, b) = 2 /\ responses[b] = [kind |-> "number", value |-> 40]
    /\ TopicCount(topics, c) = 1 /\ responses[c] = [kind |-> "number", value |-> 90]

\* C12: for 3 topics mentioned [5, 2, 1] times with relevance [0.9, 0.4, 0.9]
\* and limit 2 the output is the 5-mention topic with score 0.93, then the
\* 1-mention topic with score 0.69; the 2-mention topic is excluded.
C12_RankScenario ==
    \A a, b, c \in CountedKeys :
        RankScenario(a, b, c) =>
            /\ Len(ranked_trends) = 2
            /\ Lower(ranked_trends[1].topic) = a
            /\ ranked_trends[1].relevance_score = 930
            /\ ranked_trends[1].mention_count = 5
            /\ Lower(ranked_trends[2].topic) = c
            /\ ranked_trends[2].relevance_score = 690
            /\ ranked_trends[2].mention_count = 1
            /\ \A k \in RankedIndexes : Lower(ranked_trends[k].topic) # b

\* C12 witness: the scenario with the 1-mention topic first in the input
C12_Witness ==
    /\ RankScenario("rust", "cloud", "ai")
    /\ Lower(topics[1].topic) = "ai"

\* C13: the final score of a ranked trend is 0.7 * r + 0.3 * min(m / 5, 1)
\* for the clamped relevance r of its topic (0.5 for a malformed answer) and
\* its mention count m, and lies in [0, 1]; so does the relevance_score of
\* every trend returned by the store and of every row of the trend table.
C13_FinalScoreInUnitRange ==
    /\ Ranked =>
          \A k \in RankedIndexes :
             LET t == ranked_trends[k]
                 answer == responses[Lower(t.topic)]
                 r == IF answer.kind # "number" THEN 50
                      ELSE IF answer.value < 0 THEN 0
                      ELSE IF answer.value > 100 THEN 100
                      ELSE answer.value
                 m == t.mention_count
             IN  /\ m = TopicCount(Counted(topics), Lower(t.topic))
                 /\ 10 * t.relevance_score = 70 * r + 3 * (IF m >= 5 THEN 1000 ELSE 200 * m)
                 /\ t.relevance_score >= 0
                 /\ t.relevance_score <= 1000
    /\ \A k \in 1..Len(stored_trends) :
          stored_trends[k].relevance_score \in 0..1000
    /\ \A k \in 1..Len(trend_table) :
          trend_table[k].relevance_score \in 0..1000

\* C13 witness: an answer above 1 for a topic mentioned five times, clamped
\* and stored with the score 1.0
C13_Witness ==
    /\ agent_pc = "done"
    /\ \E k \in 1..Len(stored_trends) :
          /\ stored_trends[k].relevance_score = 1000
          /\ responses[Lower(stored_trends[k].topic)].value = 150
    /\ \E k \in 1..Len(trend_table) :
          trend_table[k].relevance_score = 1000

----------------------------------------------------------------------------
(* Claim C14: the composite score *)

\* the three inputs review_content read for candidate c
ReviewInputs(c) ==
    LET quality_metrics == IF c.post.has_quality_metrics
                           THEN c.post.quality_metrics
                           ELSE [readability_score |-> 0, engagement_score |-> 0]
    IN  <<quality_metrics.readability_score, quality_metrics.engagement_score,
          c.trend_info.relevance_score>>

\* input n of x is at most that of y, the other two equal
RaisedOnly(x, y, n) ==
    /\ x[n] <= y[n]
    /\ n # 1 => x[1] = y[1]
    /\ n # 2 => x[2] = y[2]
    /\ n # 3 => x[3] = y[3]

\* C14: of two candidates that review_content scored and that differ in one
\* of readability, engagement and trend relevance only, the one with the
\* higher input has at least the composite score of the other, and is
\* approved if the other is.
C14_CompositeMonotone ==
    [][(pc = "review_content" /\ steps' = steps + 1) =>
          \A a, b \in 1..Len(generated_content') : \A n \in 1..3 :
             RaisedOnly(ReviewInputs(generated_content'[a]),
                        ReviewInputs(generated_content'[b]), n) =>
                /\ generated_content'[a].composite_score
                      <= generated_content'[b].composite_score
                /\ generated_content'[a].approved => generated_content'[b].approved]_vars

\* C14 witness: a rejected candidate next to one approved with a higher
\* readability only and one approved with a higher engagement only
C14_Witness ==
    /\ current_step = "reviewing_content"
    /\ \E a, b \in Candidates :
          /\ RaisedOnly(ReviewInputs(generated_content[a]),
                        ReviewInputs(generated_content[b]), 1)
          /\ generated_content[a].composite_score < generated_content[b].composite_score
          /\ ~generated_content[a].approved /\ generated_content[b].approved
    /\ \E a, b \in Candidates :
          /\ RaisedOnly(ReviewInputs(generated_content[a]),
                        ReviewInputs(generated_content[b]), 2)
          /\ generated_content[a].composite_score < generated_content[b].composite_score
          /\ ~generated_content[a].approved /\ generated_content[b].approved

----------------------------------------------------------------------------
(* Claims C15 - C17: failures of a stage, of the parameters and of a call *)

IsPrefix(a, b) == Len(a) <= Len(b) /\ SubSeq(b, 1, Len(a)) = a

InvalidParameters ==
    \/ \E k \in 1..Len(config.content_tones) : config.content_tones[k] \notin ValidTones
    \/ config.max_trends \notin 1..50

\* C16: a run with an invalid parameter (here a tone outside professional,
\* casual, technical) executes no stage.
C16_InvalidRunExecutesNoStage ==
    (kind \in RunKinds /\ InvalidParameters) =>
        /\ steps = 0
        /\ current_step \in {"starting", ""}

\* C17: a run in which a generation request failed ends with a non-empty
\* errors list.
C17_FailedCallRecorded ==
    (kind \in RunKinds /\ call_failed /\ pc = "end") => errors # <<>>

----------------------------------------------------------------------------
(* Claims C18 - C20: schedule_posts and the summary *)

AfterSchedule == current_step \in {"scheduling_posts", "monitoring_engagement"}

PostsToSchedule ==
    Take(SelectSeq(generated_content, LAMBDA c : c.approved), config.max_posts_per_day)

IsScheduledEntry(id) ==
    \E k \in 1..Len(published_posts) : published_posts[k].post_id = id

\* C18: after schedule_posts every post of the batch was either scheduled or
\* had a failing database call of its own, only posts whose calls succeeded
\* are in the scheduled list, and their number is the scheduled count.
C18_FailureOmitsOnlyThatPost ==
    AfterSchedule =>
        /\ \A k \in 1..Len(PostsToSchedule) :
              \/ IsScheduledEntry(PostsToSchedule[k].post.id)
              \/ k <= Len(db_calls) /\ db_calls[k] # "ok"
        /\ \A k \in 1..Len(PostsToSchedule) :
              IsScheduledEntry(PostsToSchedule[k].post.id) =>
                 (k <= Len(db_calls) /\ db_calls[k] = "ok")
        /\ Len(published_posts) =
              Cardinality({k \in 1..Len(db_calls) : db_calls[k] = "ok"})

\* C19: every entry of the scheduled list refers to an approved candidate,
\* there are at most max_posts_per_day entries, the stored post of an entry
\* has status scheduled and the entry's time as scheduled_at, and a stored
\* post with status scheduled belongs to an approved candidate.
C19_OnlyApprovedScheduled ==
    /\ Len(published_posts) <= config.max_posts_per_day
    /\ \A k \in 1..Len(published_posts) :
          LET entry == published_posts[k]
          IN  /\ \E c \in Candidates :
                    /\ generated_content[c].post.id = entry.post_id
                    /\ generated_content[c].approved
              /\ posts[entry.post_id].status = "scheduled"
              /\ posts[entry.post_id].scheduled_at = entry.scheduled_at
    /\ \A id \in 1..Len(posts) :
          posts[id].status = "scheduled" =>
             \E c \in Candidates :
                /\ generated_content[c].post.id = id
                /\ generated_content[c].approved

\* C19 witness: more approved candidates than max_posts_per_day next to a
\* rejected one, and max_posts_per_day posts scheduled
C19_Witness ==
    /\ AfterSchedule
    /\ ApprovedCount(generated_content) > config.max_posts_per_day
    /\ ApprovedCount(generated_content) < Len(generated_content)
    /\ Len(published_posts) = config.max_posts_per_day

\* C20: the summary of a run reports the lengths of the final trend list and
\* candidate list, the number of posts marked scheduled and the errors list.
C20_SummaryMatchesFinalState ==
    result = "success" =>
        /\ summary.trends_found = Len(trends)
        /\ summary.content_generated = Len(generated_content)
        /\ summary.posts_scheduled =
              Cardinality({id \in 1..Len(posts) : posts[id].status = "scheduled"})
        /\ summary.errors = errors

----------------------------------------------------------------------------
(* Claims C21 - C23: runs started by the triggers *)

Started == 1..Len(invocations)

\* A triggered run never has an approved candidate, as RunNeverApproves has
\* it for a single run: its graph never makes schedule_posts due.
TriggeredRunsNeverApprove ==
    \A i \in Started :
        /\ invocations[i].pc \in {"analyze_trends", "filter_trends",
                                  "generate_content", "review_content", "end"}
        /\ ApprovedCount(invocations[i].state.generated_content) = 0
        /\ invocations[i].state.published_posts = <<>>

\* C21: no two runs carry the same workflow_id, whatever triggers started
\* them and whenever, and every run has a checkpoint thread of its own.
C21_RunIdsUnique ==
    /\ \A i, j \in Started :
          i # j => invocations[i].workflow_id # invocations[j].workflow_id
    /\ Cardinality(DOMAIN checkpoints) = Len(invocations)

\* C22: a step changes the state (trends, candidates, scheduled list,
\* errors, current step) of the run that takes it and of no other run, at
\* every interleaving of the runs' supersteps; a run that starts begins with
\* the initial state built for it, and starting it changes no other run.
C22_RunStateIsolated ==
    [][/\ \A j \in Started : j # actor' => invocations'[j] = invocations[j]
       /\ Len(invocations') >= Len(invocations)
       /\ Len(invocations') > Len(invocations) =>
             /\ Len(invocations') = Len(invocations) + 1
             /\ invocations'[Len(invocations')].state \in
                   {InitialState(trigger) : trigger \in Triggers}]_vars

\* C22 witness: two runs started in the same second on one checkpoint
\* thread, their supersteps interleaved; the first holds an error and no
\* trend, the second a trend and candidates it has generated a second time
C22_Witness ==
    /\ Len(invocations) = 2
    /\ invocations[1].workflow_id = invocations[2].workflow_id
    /\ invocations[1].trigger # invocations[2].trigger
    /\ invocations[1].pc = "review_content"
    /\ invocations[1].state.errors # <<>>
    /\ invocations[1].state.trends = <<>>
    /\ invocations[2].steps = 5
    /\ invocations[2].state.errors = <<>>
    /\ Len(invocations[2].state.trends) = 1
    /\ Len(invocations[2].state.generated_content) = 2
    /\ invocations[2].state.generated_content[1].post.id > 2

\* C23: every run, whatever trigger started it, enters through
\* run_daily_automation, has the step bound 50, and once it has returned
\* its summary is a row of the activity log.
C23_SameInvocation ==
    \A i \in Started :
        /\ invocations[i].entry_point = "run_daily_automation"
        /\ invocations[i].config.recursion_limit = RecursionLimit
        /\ invocations[i].pc = "end" /\ invocations[i].result # "none" =>
              /\ invocations[i].logged
              /\ \E k \in 1..Len(activity_log) :
                    activity_log[k].details = <<invocations[i].summary>>

----------------------------------------------------------------------------
(* Claims C24 - C26: failures and the mention cap in the trend ranker *)

\* the ranked trend of a lower-cased topic is in the output
InOutput(key) == \E k \in RankedIndexes : Lower(ranked_trends[k].topic) = key

\* limit trends are in the output, each with at least the score given
CrowdedOut(score) ==
    /\ Len(ranked_trends) = limit
    /\ \A k \in RankedIndexes : ranked_trends[k].relevance_score >= score

\* 0.7 * r + 0.3 * min(m / 5, 1) in thousandths, r in hundredths
ScoreOf(r, m) == 7 * r + (IF m >= 5 THEN 300 ELSE 60 * m)

\* how often a lower-cased topic occurs among the first ten mentions
FirstTen(key) == {p \in 1..Len(topics) : p <= 10 /\ Lower(topics[p].topic) = key}

ClampedAnswer(key) ==
    IF responses[key].kind # "number" THEN 50
    ELSE IF responses[key].value < 0 THEN 0
    ELSE IF responses[key].value > 100 THEN 100
    ELSE responses[key].value

\* C24: the ranker returns whatever assessments raise; a topic whose
\* assessment raised is not in the output; every other topic among the
\* counted mentions is scored, and is in the output unless limit trends
\* with at least its score fill it.
C24_FailedAssessmentDropsOnlyThatTopic ==
    /\ agent_pc # "rank" => Ranked
    /\ Ranked =>
          \A key \in CountedKeys :
             IF responses[key].kind = "error"
             THEN ~InOutput(key)
             ELSE \/ InOutput(key)
                  \/ CrowdedOut(ScoreOf(ClampedAnswer(key),
                                        Cardinality(FirstTen(key))))

\* C24 witness: of three topics the one met second raised, and the two
\* others are the output
C24_Witness ==
    /\ Ranked
    /\ Cardinality(CountedKeys) = 3
    /\ Len(ranked_trends) = 2
    /\ \E p \in 2..Len(topics) :
          /\ responses[Lower(topics[p].topic)].kind = "error"
          /\ Lower(topics[p].topic) # Lower(topics[1].topic)
          /\ \E q \in (p + 1)..Len(topics) :
                /\ Lower(topics[q].topic) # Lower(topics[p].topic)
                /\ Lower(topics[q].topic) # Lower(topics[1].topic)
                /\ InOutput(Lower(topics[q].topic))

\* C25: a ranked trend's topic occurs among the first 10 mentions, its
\* mention count is the number of those mentions with the same lower-cased
\* topic, and its topic string and metadata are those of the first of them;
\* mentions after the 10th count for nothing.
C25_FirstTenMentionsOnly ==
    Ranked =>
        \A k \in RankedIndexes :
           LET t == ranked_trends[k]
               positions == FirstTen(Lower(t.topic))
           IN  /\ positions # {}
               /\ t.mention_count = Cardinality(positions)
               /\ t.first \in positions
               /\ \A p \in positions : t.first <= p
               /\ t.topic = topics[t.first].topic
               /\ \A j \in RankedIndexes :
                     j # k => Lower(ranked_trends[j].topic) # Lower(t.topic)

\* C25 witness: twelve mentions, "AI" five times, "ai" five times and a
\* third topic after the 10th: one trend "AI" with ten mentions
C25_Witness ==
    /\ Ranked
    /\ Len(topics) = 12
    /\ topics[1].topic = "AI"
    /\ topics[6].topic = "ai"
    /\ Lower(topics[11].topic) # "ai"
    /\ Len(ranked_trends) = 1
    /\ ranked_trends[1].topic = "AI"
    /\ ranked_trends[1].mention_count = 10
    /\ ranked_trends[1].first = 1

\* C26 as claimed: a topic whose answer is malformed is in the ranked
\* output, with the final score 0.35 + 0.3 * min(mentions / 5, 1).
C26_MalformedStaysInOutput ==
    Ranked =>
        \A key \in CountedKeys :
           responses[key].kind = "malformed" =>
              \E k \in RankedIndexes :
                 /\ Lower(ranked_trends[k].topic) = key
                 /\ ranked_trends[k].relevance_score
                       = ScoreOf(50, Cardinality(FirstTen(key)))

\* C26 amended: a topic whose answer is malformed is scored
\* 0.35 + 0.3 * min(mentions / 5, 1); it is in the ranked output with that
\* score unless limit trends with at least that score fill the output.
C26_MalformedScoredWithDefault ==
    Ranked =>
        \A key \in CountedKeys :
           responses[key].kind = "malformed" =>
              LET score == ScoreOf(50, Cardinality(FirstTen(key)))
              IN  /\ InOutput(key) \/ CrowdedOut(score)
                  /\ \A k \in RankedIndexes :
                        Lower(ranked_trends[k].topic) = key =>
                           ranked_trends[k].relevance_score = score

\* C26 witness: a malformed answer for a topic mentioned twice: score 0.47,
\* ahead of a topic answered 0.4
C26_Witness ==
    /\ Ranked
    /\ Len(ranked_trends) = 2
    /\ responses[Lower(ranked_trends[1].topic)].kind = "malformed"
    /\ ranked_trends[1].mention_count = 2
    /\ ranked_trends[1].relevance_score = 470
    /\ responses[Lower(ranked_trends[2].topic)] = [kind |-> "number", value |-> 40]

----------------------------------------------------------------------------
(* Claim C30: a failing write in _store_trends *)

StoreOver == agent_pc \in {"done", "raised"}

\* the row of a ranked trend is in the table as _store_trends writes it
Written(t) ==
    \E r \in 1..Len(trend_table) :
        /\ trend_table[r].topic = t.topic
        /\ trend_table[r].recent
        /\ trend_table[r].relevance_score = t.relevance_score
        /\ trend_table[r].first = t.first

\* C30: the store step returns to the agent whatever write fails, and every
\* ranked trend whose row was written is among the trends it returns.
C30_StoreFailureDropsOnlyThatTrend ==
    StoreOver =>
        /\ agent_pc = "done"
        /\ \A k \in RankedIndexes :
              Written(ranked_trends[k]) =>
                 \E j \in 1..Len(stored_trends) :
                    stored_trends[j].topic = ranked_trends[k].topic

----------------------------------------------------------------------------
(* Claims C27 - C29: analyze_trends failing, filter_trends, generate_content *)

\* the trend analysis of a run failed: a run executes analyze_trends once,
\* first of all stages
AnalysisFailed ==
    /\ kind \in RunKinds
    /\ errors # <<>>
    /\ errors[1] = "Trend analysis failed"

\* C27: when analyze_trends fails it appends one error and leaves the trend
\* list empty; from then on the run has one error, no trend, no candidate
\* and no scheduled post, no stored post is marked scheduled, the stages
\* after it are filter_trends, generate_content and review_content, and
\* review_content sends the run to end with the decision skip.
C27_FailedAnalysisRunsEmpty ==
    /\ [][(pc = "analyze_trends" /\ steps' = steps + 1 /\ stage_failed') =>
             /\ errors' = Append(errors, "Trend analysis failed")
             /\ trends' = <<>>]_vars
    /\ [](AnalysisFailed =>
             /\ Len(errors) = 1
             /\ trends = <<>>
             /\ generated_content = <<>>
             /\ published_posts = <<>>
             /\ \A id \in 1..Len(posts) : posts[id].status # "scheduled"
             /\ pc \in {"filter_trends", "generate_content", "review_content", "end"}
             /\ current_step = "reviewing_content" => (pc = "end" /\ decision = "skip")
             /\ result \in {"none", "success"})

\* C27 witness: a run whose trend analysis failed has ended after
\* review_content with the decision skip and returned
C27_Witness ==
    /\ AnalysisFailed
    /\ pc = "end"
    /\ steps = 4
    /\ decision = "skip"
    /\ trends = <<>>
    /\ generated_content = <<>>
    /\ result = "success"

\* C28: filter_trends leaves the first max_posts_per_day trends of the
\* list it found, in descending order of relevance_score and, among equal
\* scores, in the order found: each trend left was in the list, at most
\* max_posts_per_day are left, none is left out while a trend with a lower
\* score or a later one with the same score is kept, and nothing else
\* (no history of published posts) removes a trend.
C28_FilterKeepsTopTrends ==
    [][(pc = "filter_trends" /\ steps' = steps + 1) =>
          LET old == trends
              new == trends'
              kept == {i \in 1..Len(old) : \E k \in 1..Len(new) : new[k] = old[i]}
          IN  /\ Len(new) = (IF Len(old) <= config.max_posts_per_day
                              THEN Len(old) ELSE config.max_posts_per_day)
              /\ Cardinality(kept) = Len(new)
              /\ \A k \in 1..Len(new) : \E i \in 1..Len(old) : new[k] = old[i]
              /\ \A k, m \in 1..Len(new) :
                    k < m => new[k].relevance_score >= new[m].relevance_score
              /\ \A i, j \in 1..Len(old) :
                    (i \in kept /\ j \notin kept) =>
                       \/ old[i].relevance_score > old[j].relevance_score
                       \/ old[i].relevance_score = old[j].relevance_score /\ i < j]_vars

\* C28 witness: a custom run with max_posts_per_day 2 has filtered its
\* trends: two are left, the one with the higher score first
C28_Witness ==
    /\ kind = "custom"
    /\ current_step = "filtering_trends"
    /\ config.max_posts_per_day = 2
    /\ Len(trends) = 2
    /\ trends[1].relevance_score > trends[2].relevance_score

\* the indexes of the requests that succeeded, in the order made
OkCalls(calls) ==
    SelectSeq([p \in 1..Len(calls) |-> p], LAMBDA p : calls[p] = "ok")

\* C29: generate_content makes one request per pair of a trend and a tone,
\* the trends in list order and for each trend the tones in list order; the
\* candidate list it leaves holds, in that order, exactly the pairs whose
\* request succeeded, so at most |trends| * |tones| candidates.
C29_OneCandidatePerSucceededPair ==
    [][(pc = "generate_content" /\ steps' = steps + 1) =>
          LET tones == config.content_tones
              ok == OkCalls(gen_calls')
              new == generated_content'
          IN  /\ Len(gen_calls') = Len(trends) * Len(tones)
              /\ Len(new) = Len(ok)
              /\ Len(new) <= Len(trends) * Len(tones)
              /\ \A k \in 1..Len(new) :
                    /\ new[k].trend_info = trends[((ok[k] - 1) \div Len(tones)) + 1]
                    /\ new[k].tone = tones[((ok[k] - 1) % Len(tones)) + 1]]_vars

\* C29 witness: two trends and two tones, the request for the second tone
\* of the first trend failed: three candidates, the second one for the
\* second trend
C29_Witness ==
    /\ current_step = "generating_content"
    /\ Len(trends) = 2
    /\ Len(config.content_tones) = 2
    /\ gen_calls = <<"ok", "failed", "ok", "ok">>
    /\ Len(generated_content) = 3
    /\ generated_content[2].trend_info = trends[2]
    /\ generated_content[2].tone = config.content_tones[1]

----------------------------------------------------------------------------
(* Claims C32 - C34: monitor, the recursion limit, the rounds of generate_content *)

\* C32: the monitor stage sets current_step and nothing else of the run or
\* the store: trends, candidates, scheduled list, errors, every stored post
\* and every stored trend are after it what they were before it.
C32_MonitorChangesOnlyMarker ==
    [][(pc = "monitor_engagement" /\ steps' = steps + 1) =>
          /\ current_step' = "monitoring_engagement"
          /\ trends' = trends
          /\ generated_content' = generated_content
          /\ published_posts' = published_posts
          /\ errors' = errors
          /\ posts' = posts
          /\ trend_table' = trend_table]_vars

\* C32 witness: monitor has run after a schedule_posts that marked a post
\* scheduled and recorded no error
C32_Witness ==
    /\ current_step = "monitoring_engagement"
    /\ pc = "end"
    /\ published_posts # <<>>
    /\ errors = <<>>
    /\ \E id \in 1..Len(posts) : posts[id].status = "scheduled"

\* C33: a run started by run_daily_automation executes at most 50 stages;
\* with 50 stages executed and END not reached the next thing that happens is
\* the failure result, and a run that failed so has executed exactly 50
\* stages and has marked no post scheduled.
C33_DailyRunStopsAfter50Stages ==
    /\ [](kind = "daily" => steps <= 50)
    /\ [](kind = "daily" /\ pc = "failed" =>
             /\ result = "failure"
             /\ steps = 50
             /\ published_posts = <<>>
             /\ \A id \in 1..Len(posts) : posts[id].status = "draft")
    /\ [][(kind = "daily" /\ steps = 50 /\ pc \in Nodes) =>
             (pc' = "failed" /\ result' = "failure" /\ steps' = 50)]_vars

\* C33 witness: a daily run that kept regenerating has failed after 50 stages
C33_Witness ==
    /\ kind = "daily"
    /\ pc = "failed"
    /\ result = "failure"
    /\ steps = 50
    /\ decision = "regenerate"
    /\ total_generated > RegenerateCeiling

\* the ids of the posts of the run's candidates
CandidatePosts == {generated_content[k].post.id : k \in 1..Len(generated_content)}

\* C34: generate_content replaces the candidate list by the candidates of
\* this round, each with a post stored in this round as a draft, and leaves
\* the posts stored before as they were; at any time a post that is not the
\* post of a current candidate (a post of an earlier round) has status draft.
C34_OnlyLastRoundCandidates ==
    /\ [][(pc = "generate_content" /\ steps' = steps + 1) =>
             /\ Len(posts') = Len(posts) + Len(generated_content')
             /\ \A k \in 1..Len(generated_content') :
                   /\ generated_content'[k].post.id \in (Len(posts) + 1)..Len(posts')
                   /\ posts'[generated_content'[k].post.id].status = "draft"
             /\ \A id \in 1..Len(posts) : posts'[id] = posts[id]]_vars
    /\ [](\A id \in 1..Len(posts) :
             id \notin CandidatePosts => posts[id].status = "draft")

\* C34 witness: a second round has replaced the two candidates of the first:
\* four posts are stored, all drafts, and the candidates are the last two
C34_Witness ==
    /\ kind \in RunKinds
    /\ current_step = "generating_content"
    /\ Len(posts) = 4
    /\ total_generated = 4
    /\ CandidatePosts = {3, 4}
    /\ \A id \in 1..4 : posts[id].status = "draft"

----------------------------------------------------------------------------
(* Claim C31: the duplicate-topic filter *)

\* a post created within the last 7 days refers to the trend
Referenced(id) ==
    \E k \in 1..Len(post_rows) :
        /\ post_rows[k].trend_topic_id = id
        /\ now_day - post_rows[k].created_at <= 7

\* C31: the duplicate-topic filter returns the trends of its argument whose
\* id no post created within the last 7 days refers to, in the order of the
\* argument and with nothing added; if reading the posts fails it returns
\* the argument as it is.
C31_DuplicateFilter ==
    dup_pc = "returned" =>
        /\ history_read = "ok" =>
              filtered_trends =
                 SelectSeq(candidate_trends, LAMBDA t : ~Referenced(t.id))
        /\ history_read # "ok" => filtered_trends = candidate_trends
        /\ \A k \in 1..Len(filtered_trends) :
              \E j \in 1..Len(candidate_trends) :
                 filtered_trends[k] = candidate_trends[j]

\* C31 witness: of the trends 1, 2, 3 the second has a post created exactly
\* 7 days ago and the first a post created 8 days ago: 1 and 3 are returned
C31_Witness ==
    /\ dup_pc = "returned"
    /\ history_read = "ok"
    /\ candidate_trends = <<[id |-> 1], [id |-> 2], [id |-> 3]>>
    /\ post_rows = <<[trend_topic_id |-> 2, created_at |-> 2],
                     [trend_topic_id |-> 1, created_at |-> 1]>>
    /\ filtered_trends = <<[id |-> 1], [id |-> 3]>>

----------------------------------------------------------------------------
(* Claim C36: one record per topic and 24 hours *)

TopicRows(table, topic) == {k \in 1..Len(table) : table[k].topic = topic}

\* C36: no two records of the trend store have the same topic string and
\* times of detection at most 24 hours apart; a call of _store_trends adds
\* no record for a topic that has one detected in the last 24 hours, and it
\* leaves id, topic and time of detection of every record as they were.
C36_OneRecordPerTopicAndDay ==
    /\ [](\A j, k \in 1..Len(topic_rows) :
             (j # k /\ topic_rows[j].topic = topic_rows[k].topic) =>
                \/ topic_rows[j].detected_at - topic_rows[k].detected_at > 2
                \/ topic_rows[k].detected_at - topic_rows[j].detected_at > 2)
    /\ [][Len(store_calls') > Len(store_calls) =>
             /\ \A topic \in StoreTopics :
                   (\E k \in TopicRows(topic_rows, topic) :
                       store_now - topic_rows[k].detected_at <= 2)
                   => TopicRows(topic_rows', topic) = TopicRows(topic_rows, topic)
             /\ \A k \in 1..Len(topic_rows) :
                   /\ topic_rows'[k].id = topic_rows[k].id
                   /\ topic_rows'[k].topic = topic_rows[k].topic
                   /\ topic_rows'[k].detected_at = topic_rows[k].detected_at]_vars

\* C36 witness: a call has updated the record of a topic, and 36 hours after
\* the first record of "AI" a second one was created
C36_Witness ==
    /\ \E c \in 1..Len(store_calls) : store_calls[c].updated >= 1
    /\ \E j, k \in TopicRows(topic_rows, "AI") :
          topic_rows[k].detected_at = topic_rows[j].detected_at + 3

----------------------------------------------------------------------------
(* Claim C37: start_automation and stop_automation *)

\* the call that has just returned
Returned == service_calls'[Len(service_calls')]

Successes == {k \in 1..Len(service_calls) : service_calls[k].success}

\* the last call that returned success=true was a start
StartedLast ==
    \E k \in Successes :
        /\ service_calls[k].op = "start"
        /\ \A j \in Successes : j <= k

\* C37: start_automation while the service is running returns
\* success=false, adds or replaces no job and leaves is_running true;
\* stop_automation while it is not running returns success=false and leaves
\* is_running false; is_running is true exactly when the last call that
\* returned success=true was a start_automation.
C37_StartStopGuarded ==
    /\ [][Len(service_calls') > Len(service_calls) =>
             /\ (Returned.op = "start" /\ is_running) =>
                   /\ ~Returned.success
                   /\ jobs' = jobs
                   /\ is_running'
             /\ (Returned.op = "stop" /\ ~is_running) =>
                   /\ ~Returned.success
                   /\ ~is_running']_vars
    /\ [](is_running <=> StartedLast)

\* C37 witness: a start, a start refused while running, a stop, a stop
\* refused while stopped; the jobs were added once
C37_Witness ==
    /\ Len(service_calls) = 4
    /\ service_calls[1] = ServiceResult("start", TRUE, "LinkedIn automation started")
    /\ service_calls[2] = ServiceResult("start", FALSE, "Automation already running")
    /\ service_calls[3] = ServiceResult("stop", TRUE, "LinkedIn automation stopped")
    /\ service_calls[4] = ServiceResult("stop", FALSE, "Automation not running")
    /\ ~is_running
    /\ DOMAIN jobs = ServiceJobs
    /\ \A id \in ServiceJobs : jobs[id] = 1

----------------------------------------------------------------------------
(* Claim C38: BaseAgent.execute *)

\* C38: no call of execute raises; with failing validation the logic is not
\* invoked and the result is success=false with the validation message; with
\* the logic raising it is success=false with the logic's message; else it
\* is success=true with the logic's result, whatever becomes of the activity
\* write; every call attempts one activity write, which adds one row of the
\* call's status if it succeeds and none if it fails.
C38_ExecuteNeverRaises ==
    /\ [](\A c \in 1..Len(executions) :
             LET call == executions[c]
             IN  /\ ~call.raised
                 /\ call.log_attempts = 1
                 /\ call.validation = "invalid" =>
                       /\ ~call.logic_invoked
                       /\ ~call.success
                       /\ call.error = "validation_message"
                 /\ (call.validation = "valid" /\ call.logic = "raises") =>
                       /\ call.logic_invoked
                       /\ ~call.success
                       /\ call.error = "logic_message"
                 /\ (call.validation = "valid" /\ call.logic = "returns") =>
                       /\ call.logic_invoked
                       /\ call.success
                       /\ call.data = "logic_result")
    /\ [][Len(executions') > Len(executions) =>
             LET call == executions'[Len(executions')]
             IN  agent_activity' =
                    IF call.write = "ok"
                    THEN Append(agent_activity,
                                [activity_type |-> "execution",
                                 status |-> IF call.success THEN "success"
                                            ELSE "error"])
                    ELSE agent_activity]_vars

\* C38 witness: a call whose activity write failed returned success=true, a
\* call with failing validation returned success=false and its row was
\* written, a call whose logic raised lost its row
C38_Witness ==
    /\ Len(executions) = 3
    /\ executions[1].write = "commit_error" /\ executions[1].success
    /\ executions[2].validation = "invalid" /\ executions[2].write = "ok"
    /\ executions[3].logic = "raises" /\ executions[3].validation = "valid"
    /\ executions[3].write = "connect_error"
    /\ agent_activity = <<[activity_type |-> "execution", status |-> "error"]>>

----------------------------------------------------------------------------
(* Claim C35: posts marked scheduled by runs side by side *)

MarksOf(id) == {m \in 1..Len(marks) : marks[m].post_id = id}

\* C35: whatever the order in which the stages of the runs follow one
\* another, a post row changes only from draft to scheduled and only in a
\* step of the run that generated the post; a scheduled post stays
\* scheduled; no post is marked twice.
C35_ScheduledOnceByItsRun ==
    /\ [][\A id \in 1..Len(posts) :
             /\ posts'[id] # posts[id] =>
                   /\ posts[id].status = "draft"
                   /\ posts'[id].status = "scheduled"
                   /\ actor' = post_owner[id]
             /\ posts[id].status = "scheduled" => posts'[id].status = "scheduled"]_vars
    /\ [](\A id \in 1..Len(posts) :
             /\ Cardinality(MarksOf(id)) <= 1
             /\ posts[id].status = "scheduled" <=> MarksOf(id) # {}
             /\ \A m \in MarksOf(id) :
                   marks[m].by = post_owner[id] /\ marks[m].before = "draft")

\* C35 witness: two runs have each marked a post of their own, the second
\* run first, and a post of the first run is still a draft
C35_Witness ==
    /\ Len(marks) >= 2
    /\ marks[1].by = 2
    /\ \E m \in 2..Len(marks) : marks[m].by = 1
    /\ \E id \in 1..Len(posts) : post_owner[id] = 1 /\ posts[id].status = "draft"
    /\ \A i \in 1..Len(invocations) : invocations[i].pc = "end"

====
